---- MODULE Spec2Model ----
(***************************************************************************)
(* Profile switching engine and secure store of claude-flip (cflip).       *)
(*                                                                         *)
(* The state is the part of the file system the tool reads and writes: the *)
(* external application's candidate config files, the .backup and .tmp     *)
(* siblings of ~/.claude.json, the credentials store, the profile files in *)
(* ~/.cflip and the index ~/.cflip/config.json.  Every operation of the    *)
(* tool is one action; the operators below it are its callees, translated  *)
(* function by function.                                                   *)
(*                                                                         *)
(* Strings the code inspects character by character (profile names,        *)
(* e-mail addresses, file names) are sequences of one-character strings;   *)
(* the empty string is <<>>.  JSON values the code only passes through     *)
(* are opaque values that encoding/json reads and writes back unchanged.   *)
(* Time stamps (created_at, updated_at, last_active_at, last_updated) are  *)
(* not part of the modelled state.                                         *)
(***************************************************************************)
EXTENDS Integers, Sequences, FiniteSets, TLC

VARIABLES
    cfgFiles,      \* the candidate config files, in probing order
    cfgBackup,     \* ~/.claude.json.backup
    cfgTmp,        \* ~/.claude.json.tmp
    credsFile,     \* the external application's credentials document
    profileFiles,  \* ~/.cflip/*.profile: file name -> content
    indexFile,     \* ~/.cflip/config.json
    last,          \* the last invocation of the tool and how it ended
    nOps,          \* invocations of the tool so far
    nFaults,       \* invocations that met a fault so far
    nExt,          \* changes made by the external application so far
    platform,      \* runtime.GOOS
    vault,         \* what the secure store keeps: entry name -> content
    keychain,      \* the KeychainStorage constructed, if one is
    manager,       \* the StorageManager constructed, if one is
    running,       \* invocations that run at the same time, and the files they share
    accounts       \* AccountManager.accounts: account ID -> account

vars == <<cfgFiles, cfgBackup, cfgTmp, credsFile, profileFiles, indexFile, last, nOps, nFaults, nExt,
          platform, vault, keychain, manager, running, accounts>>

\* The secure store and the objects constructed over it.
storeVars == <<platform, vault, keychain, manager>>

\* What only the specifications of concurrent invocations and of the account
\* manager change.
idleVars == <<running, accounts>>

-----------------------------------------------------------------------------
(* Bounds *)

MaxOps == 3

MaxExt == 2

MaxFaults == 1

MaxSaved == 3

\* Switches there and back in one run.
MaxReturns == 2

-----------------------------------------------------------------------------
(* Characters and strings *)

CharCode ==
    ("+" :> 43) @@ ("-" :> 45) @@ ("." :> 46) @@ ("@" :> 64) @@ ("_" :> 95) @@
    ("a" :> 97) @@ ("b" :> 98) @@ ("d" :> 100) @@ ("e" :> 101) @@ ("f" :> 102) @@
    ("i" :> 105) @@ ("l" :> 108) @@ ("o" :> 111) @@ ("p" :> 112) @@ ("r" :> 114) @@
    ("w" :> 119) @@ ("x" :> 120) @@ ("z" :> 122)

\* Byte-wise string order, the order of os.ReadDir's entries.
RECURSIVE StrLess(_, _)
StrLess(a, b) ==
    IF b = <<>> THEN FALSE
    ELSE IF a = <<>> THEN TRUE
    ELSE IF CharCode[Head(a)] < CharCode[Head(b)] THEN TRUE
    ELSE IF CharCode[Head(a)] > CharCode[Head(b)] THEN FALSE
    ELSE StrLess(Tail(a), Tail(b))

IsSafeChar(r) ==
    \/ (CharCode[r] >= 97 /\ CharCode[r] <= 122)
    \/ (CharCode[r] >= 65 /\ CharCode[r] <= 90)
    \/ (CharCode[r] >= 48 /\ CharCode[r] <= 57)
    \/ r = "."
    \/ r = "-"

sanitizeFilename(s) == [i \in 1..Len(s) |-> IF IsSafeChar(s[i]) THEN s[i] ELSE "_"]

ProfileExt == <<".", "p", "r", "o", "f", "i", "l", "e">>

ProfilePath(s) == sanitizeFilename(s) \o ProfileExt

-----------------------------------------------------------------------------
(* Documents *)

EmptyDoc == <<>>

WithKey(d, k, v) == [x \in (DOMAIN d) \cup {k} |-> IF x = k THEN v ELSE d[x]]

WithoutKeys(d, ks) == [x \in (DOMAIN d) \ ks |-> d[x]]

ZeroCredentials == [accessToken |-> "", refreshToken |-> ""]

NoFile == [st |-> "none", doc |-> EmptyDoc]

CorruptFile == [st |-> "corrupt", doc |-> EmptyDoc]

\* A file that holds the JSON value null.
NullFile == [st |-> "null", doc |-> EmptyDoc]

DocFile(d) == [st |-> "ok", doc |-> d]

NoCredsFile == [st |-> "none", creds |-> ZeroCredentials]

CorruptCredsFile == [st |-> "corrupt", creds |-> ZeroCredentials]

CredsFileOf(c) == [st |-> "ok", creds |-> c]

\* The keys of the documents considered here that start with "_cflip_".
InternalPrefixed == {"_cflip_credentials", "_cflip_note"}

HasInternalPrefix(key) == key \in InternalPrefixed

-----------------------------------------------------------------------------
(* Faults.  An invocation meets at most one fault f = [at, kind]: the write *)
(* step named f.at fails ("error": nothing was written; "partial": the     *)
(* file was created or truncated before the failure), or the process stops *)
(* right after that step has completed ("crash").                          *)

NoFault == [at |-> "none", kind |-> "none"]

Sites ==
    {"profile_write", "profile_rename", "index_write", "index_rename",
     "backup", "config_write", "config_rename", "creds_write", "creds_rename",
     "active_write", "active_rename", "remove"}

\* The steps a stop is placed after: those that replace a file the tool reads
\* back, where a stop leaves a state no failure of the step leaves, and the
\* write of the credentials' temporary file, the step between the two
\* replacements of applyProfile.
ReplacingSites ==
    {"profile_rename", "index_rename", "backup", "config_write", "config_rename",
     "creds_write", "creds_rename", "active_rename", "remove"}

\* The steps whose partial result stays on disk.
PartialSites == {"backup", "config_write"}

Faults ==
    {NoFault} \cup [at : Sites, kind : {"error"}]
              \cup [at : ReplacingSites, kind : {"crash"}]
              \cup [at : PartialSites, kind : {"partial"}]

\* The faults an operation that passes through the steps S can meet.
FaultsAt(S) == {f \in Faults : f.at \in S \cup {"none"}}

Fails(f, site) == f.at = site /\ f.kind \in {"error", "partial"}

Crashes(f, site) == f.at = site /\ f.kind = "crash"

Halt(w, how) == [w |-> w, halt |-> how]

\* A value computed once and named in what follows (a local variable of the code).
With(v, Rest(_)) == Rest(v)

With2(v1, v2, Rest(_, _)) == Rest(v1, v2)

\* The result r of a step, and the steps that follow it unless it failed.
Bind(r, Rest(_)) == IF r.halt # "ok" THEN Halt(r.w, r.halt) ELSE Rest(r)

-----------------------------------------------------------------------------
(* package config *)

NumConfigPaths == 4

RECURSIVE FirstParseable(_, _)
FirstParseable(files, i) ==
    IF i > NumConfigPaths THEN 0
    ELSE IF files[i].st = "ok" THEN i
    ELSE FirstParseable(files, i + 1)

\* SecureStorage.Capture: the raw credentials document of the external
\* application, read from its native store.
Capture(w) ==
    IF w.creds.st = "none"
    THEN [err |-> TRUE, raw |-> NoCredsFile]
    ELSE [err |-> FALSE, raw |-> w.creds]

loadCredentialsForConfig(w) ==
    LET c == Capture(w)
    IN  IF c.err \/ c.raw.st # "ok"
        THEN [err |-> TRUE, creds |-> ZeroCredentials]
        ELSE [err |-> FALSE, creds |-> c.raw.creds]

\* The variable config of LoadClaudeConfig: nil, or a map.
NilConfig == [nil |-> TRUE, doc |-> EmptyDoc]

MapConfig(d) == [nil |-> FALSE, doc |-> d]

\* The loop over configPaths from the i-th path on, config being what the
\* variable holds: a file that cannot be read is passed over; for a file that
\* can be read config is made an empty map, which json.Unmarshal fills, leaves
\* empty when it fails, and sets to nil when the file holds null; the loop
\* ends at the first file that json.Unmarshal accepts.
RECURSIVE probe(_, _, _)
probe(files, i, config) ==
    IF i > NumConfigPaths THEN config
    ELSE IF files[i].st = "none" THEN probe(files, i + 1, config)
    ELSE IF files[i].st = "corrupt" THEN probe(files, i + 1, MapConfig(EmptyDoc))
    ELSE IF files[i].st = "null" THEN NilConfig
    ELSE MapConfig(files[i].doc)

LoadClaudeConfig(w) ==
    With2(probe(w.cfg, 1, NilConfig), loadCredentialsForConfig(w), LAMBDA config, c :
        IF config.nil
        THEN [err |-> TRUE, config |-> EmptyDoc]
        ELSE [err |-> FALSE,
              config |-> IF c.err THEN config.doc
                         ELSE WithKey(config.doc, "_cflip_credentials", c.creds)])

\* cleanConfig that copies every key.
cleanConfigKeepingAll(config) == config

cleanConfig(config) == WithoutKeys(config, {k \in DOMAIN config : HasInternalPrefix(k)})

copyFile(w, f) ==
    IF Fails(f, "backup")
    THEN Halt(IF f.kind = "partial" THEN [w EXCEPT !.bak = CorruptFile] ELSE w, "err")
    ELSE Halt([w EXCEPT !.bak = w.cfg[1]], IF Crashes(f, "backup") THEN "crash" ELSE "ok")

\* writeConfig without the temporary file: the document is written over
\* ~/.claude.json itself.
writeConfigInPlace(w, data, f) ==
    IF Fails(f, "config_write")
    THEN Halt(IF f.kind = "partial" THEN [w EXCEPT !.cfg[1] = CorruptFile] ELSE w, "err")
    ELSE Halt([w EXCEPT !.cfg[1] = DocFile(data)],
              IF Crashes(f, "config_write") \/ Crashes(f, "config_rename")
              THEN "crash" ELSE "ok")

\* SaveClaudeConfig once the backup is taken: the document is written to the
\* temporary file, which then replaces ~/.claude.json.
writeConfig(w, data, f) ==
    IF Fails(f, "config_write")
    THEN Halt(IF f.kind = "partial" THEN [w EXCEPT !.tmp = CorruptFile] ELSE w, "err")
    ELSE IF Crashes(f, "config_write") THEN Halt([w EXCEPT !.tmp = DocFile(data)], "crash")
    ELSE IF Fails(f, "config_rename") THEN Halt([w EXCEPT !.tmp = NoFile], "err")
    ELSE Halt([w EXCEPT !.cfg[1] = DocFile(data), !.tmp = NoFile],
              IF Crashes(f, "config_rename") THEN "crash" ELSE "ok")

\* SaveClaudeConfig that takes no backup.
SaveClaudeConfigWithoutBackup(w, config, f) == writeConfig(w, cleanConfig(config), f)

SaveClaudeConfig(w, config, f) ==
    Bind(IF w.cfg[1].st # "none" THEN copyFile(w, f) ELSE Halt(w, "ok"),
         LAMBDA r : writeConfig(r.w, cleanConfig(config), f))

HasOAuthAccount(c) == "oauthAccount" \in DOMAIN c

ValidateConfig(config) ==
    /\ HasOAuthAccount(config)
    /\ config["oauthAccount"].emailAddress # <<>>
    /\ config["oauthAccount"].accountUuid # ""

GetUserEmail(c) == IF HasOAuthAccount(c) THEN c["oauthAccount"].emailAddress ELSE <<>>

GetAccountUuid(c) == IF HasOAuthAccount(c) THEN c["oauthAccount"].accountUuid ELSE ""

GetCredentials(c) ==
    IF "_cflip_credentials" \in DOMAIN c
    THEN [ok |-> TRUE, creds |-> c["_cflip_credentials"]]
    ELSE [ok |-> FALSE, creds |-> ZeroCredentials]

-----------------------------------------------------------------------------
(* package profile: ProfileManager *)

NilProfile ==
    [name |-> <<>>, email |-> <<>>, alias |-> <<>>, accountUuid |-> "",
     claudeConfig |-> EmptyDoc, credentials |-> ZeroCredentials]

ProfileFileOf(p) == [st |-> "ok", profile |-> p]

CorruptProfileFile == [st |-> "corrupt", profile |-> NilProfile]

EmptyIndex == [activeProfile |-> <<>>, profiles |-> <<>>]

NoIndexFile == [st |-> "none", config |-> EmptyIndex]

IndexFileOf(c) == [st |-> "ok", config |-> c]

\* The file names of a set, in os.ReadDir's order.
RECURSIVE SortedNames(_)
SortedNames(S) ==
    IF S = {} THEN <<>>
    ELSE LET m == CHOOSE x \in S : \A y \in S \ {x} : StrLess(x, y)
         IN  <<m>> \o SortedNames(S \ {m})

\* ParsedProfiles that gives up at the first file that does not parse.
RECURSIVE ParsedProfilesStopping(_, _)
ParsedProfilesStopping(files, names) ==
    IF names = <<>> THEN <<>>
    ELSE IF files[Head(names)].st = "ok"
    THEN <<files[Head(names)].profile>> \o ParsedProfilesStopping(files, Tail(names))
    ELSE <<>>

RECURSIVE ParsedProfiles(_, _)
ParsedProfiles(files, names) ==
    IF names = <<>> THEN <<>>
    ELSE IF files[Head(names)].st = "ok"
    THEN <<files[Head(names)].profile>> \o ParsedProfiles(files, Tail(names))
    ELSE ParsedProfiles(files, Tail(names))

ListProfiles(w) == ParsedProfiles(w.pfiles, SortedNames(DOMAIN w.pfiles))

LoadConfig(w) ==
    IF w.index.st = "none" THEN [err |-> FALSE, config |-> EmptyIndex]
    ELSE IF w.index.st = "corrupt" THEN [err |-> TRUE, config |-> EmptyIndex]
    ELSE [err |-> FALSE, config |-> w.index.config]

SaveConfig(w, config, f, siteWrite, siteRename) ==
    IF Fails(f, siteWrite) THEN Halt(w, "err")
    ELSE IF Crashes(f, siteWrite) THEN Halt(w, "crash")
    ELSE IF Fails(f, siteRename) THEN Halt(w, "err")
    ELSE Halt([w EXCEPT !.index = IndexFileOf(config)],
              IF Crashes(f, siteRename) THEN "crash" ELSE "ok")

RECURSIVE FirstMatch(_, _, _)
FirstMatch(profiles, identifier, i) ==
    IF i > Len(profiles) THEN 0
    ELSE IF profiles[i].name = identifier \/ profiles[i].email = identifier THEN i
    ELSE FirstMatch(profiles, identifier, i + 1)

findProfilePath(w, identifier) ==
    IF ProfilePath(identifier) \in DOMAIN w.pfiles
    THEN [err |-> FALSE, path |-> ProfilePath(identifier)]
    ELSE With(ListProfiles(w), LAMBDA profiles :
         With(FirstMatch(profiles, identifier, 1), LAMBDA i :
             IF i # 0 THEN [err |-> FALSE, path |-> ProfilePath(profiles[i].email)]
             ELSE [err |-> TRUE, path |-> <<>>]))

LoadProfile(w, identifier) ==
    With(findProfilePath(w, identifier), LAMBDA fp :
        IF fp.err \/ fp.path \notin DOMAIN w.pfiles
        THEN [err |-> TRUE, profile |-> NilProfile]
        ELSE IF w.pfiles[fp.path].st # "ok" THEN [err |-> TRUE, profile |-> NilProfile]
        ELSE [err |-> FALSE, profile |-> w.pfiles[fp.path].profile])

updateConfig(w, name, email, f) ==
    With(LoadConfig(w), LAMBDA c :
        IF c.err THEN Halt(w, "err")
        ELSE SaveConfig(w, [c.config EXCEPT !.profiles = (name :> email) @@ @], f,
                        "index_write", "index_rename"))

\* SaveProfile that creates a profile file and never overwrites one.
SaveProfileNoOverwrite(w, profile, f) ==
    IF profile.name = <<>> \/ ProfilePath(profile.email) \in DOMAIN w.pfiles
    THEN Halt(w, "err")
    ELSE updateConfig([w EXCEPT !.pfiles = (ProfilePath(profile.email) :> ProfileFileOf(profile)) @@ @],
                      profile.name, profile.email, f)

SaveProfile(w, profile, f) ==
    LET w2 == [w EXCEPT !.pfiles = (ProfilePath(profile.email) :> ProfileFileOf(profile)) @@ @]
    IN  IF profile.name = <<>> THEN Halt(w, "err")
        ELSE IF Fails(f, "profile_write") THEN Halt(w, "err")
        ELSE IF Crashes(f, "profile_write") THEN Halt(w, "crash")
        ELSE IF Fails(f, "profile_rename") THEN Halt(w, "err")
        ELSE IF Crashes(f, "profile_rename") THEN Halt(w2, "crash")
        ELSE updateConfig(w2, profile.name, profile.email, f)

\* DeleteProfile once the file is removed: the profile leaves the index.
forgetProfile(w, name, f) ==
    With(LoadConfig(w), LAMBDA c :
        IF c.err THEN Halt(w, "err")
        ELSE SaveConfig(w,
                 [activeProfile |-> IF c.config.activeProfile = name
                                    THEN <<>> ELSE c.config.activeProfile,
                  profiles |-> [n \in (DOMAIN c.config.profiles) \ {name}
                                  |-> c.config.profiles[n]]],
                 f, "index_write", "index_rename"))

\* DeleteProfile that removes every profile file that holds the profile's name.
DeleteProfileByName(w, identifier, f) ==
    With(LoadProfile(w, identifier), LAMBDA p :
        IF p.err THEN Halt(w, "err")
        ELSE forgetProfile([w EXCEPT !.pfiles =
                               [x \in {y \in DOMAIN @ : @[y].profile.name # p.profile.name} |-> @[x]]],
                           p.profile.name, f))

DeleteProfile(w, identifier, f) ==
    With2(findProfilePath(w, identifier), LoadProfile(w, identifier), LAMBDA fp, p :
        IF fp.err \/ p.err THEN Halt(w, "err")
        ELSE IF Fails(f, "remove") THEN Halt(w, "err")
        ELSE With([w EXCEPT !.pfiles = [x \in (DOMAIN @) \ {fp.path} |-> @[x]]], LAMBDA w2 :
             IF Crashes(f, "remove") THEN Halt(w2, "crash")
             ELSE forgetProfile(w2, p.profile.name, f)))

GetActiveProfile(w) ==
    With(LoadConfig(w), LAMBDA c :
        IF c.err \/ c.config.activeProfile = <<>>
        THEN [err |-> TRUE, profile |-> NilProfile]
        ELSE LoadProfile(w, c.config.activeProfile))

SetActiveProfile(w, identifier, f) ==
    With2(LoadProfile(w, identifier), LoadConfig(w), LAMBDA p, c :
        IF p.err \/ c.err THEN Halt(w, "err")
        ELSE SaveConfig(w, [c.config EXCEPT !.activeProfile = p.profile.name], f,
                        "active_write", "active_rename"))

-----------------------------------------------------------------------------
(* package profile: Switcher *)

\* LoadCredentials: the credentials document, parsed into config.Credentials.
loadCredentials(w) ==
    IF w.creds.st = "ok"
    THEN [err |-> FALSE, creds |-> w.creds.creds]
    ELSE [err |-> TRUE, creds |-> ZeroCredentials]

\* SaveCredentials: written to a temporary file that then replaces the document.
saveCredentials(w, credentials, f) ==
    IF Fails(f, "creds_write") THEN Halt(w, "err")
    ELSE IF Crashes(f, "creds_write") THEN Halt(w, "crash")
    ELSE IF Fails(f, "creds_rename") THEN Halt(w, "err")
    ELSE Halt([w EXCEPT !.creds = CredsFileOf(credentials)],
              IF Crashes(f, "creds_rename") THEN "crash" ELSE "ok")

Saved(r, profile) == [w |-> r.w, halt |-> r.halt, profile |-> profile]

SaveCurrentAccount(w, name, alias, f) ==
    With(LoadClaudeConfig(w), LAMBDA claudeConfig :
    With(GetCredentials(claudeConfig.config), LAMBDA credentials :
        IF claudeConfig.err \/ ~ValidateConfig(claudeConfig.config) \/ ~credentials.ok
        THEN [w |-> w, halt |-> "err", profile |-> NilProfile]
        ELSE With([name |-> IF name = <<>> THEN GetUserEmail(claudeConfig.config) ELSE name,
                   email |-> GetUserEmail(claudeConfig.config),
                   alias |-> alias,
                   accountUuid |-> GetAccountUuid(claudeConfig.config),
                   claudeConfig |-> claudeConfig.config,
                   credentials |-> credentials.creds],
                  LAMBDA profile : Saved(SaveProfile(w, profile, f), profile))))

\* GetNextProfile without the wrap: after the last profile comes the last profile.
GetNextProfileNoWrap(w) ==
    With2(ListProfiles(w), GetActiveProfile(w), LAMBDA profiles, activeProfile :
        IF Len(profiles) = 0 THEN [err |-> TRUE, profile |-> NilProfile]
        ELSE IF activeProfile.err THEN [err |-> FALSE, profile |-> profiles[1]]
        ELSE With({i \in 1..Len(profiles) : profiles[i].name = activeProfile.profile.name},
                  LAMBDA found :
             IF found = {} THEN [err |-> FALSE, profile |-> profiles[1]]
             ELSE [err |-> FALSE,
                   profile |-> profiles[IF \A i \in found : i = Len(profiles)
                                        THEN Len(profiles)
                                        ELSE 1 + CHOOSE i \in found : \A j \in found : i <= j]]))

\* The loop of GetNextProfile: the first index whose profile has the name, 0 if none.
RECURSIVE indexOfName(_, _, _)
indexOfName(profiles, name, i) ==
    IF i > Len(profiles) THEN 0
    ELSE IF profiles[i].name = name THEN i
    ELSE indexOfName(profiles, name, i + 1)

GetNextProfile(w) ==
    With2(ListProfiles(w), GetActiveProfile(w), LAMBDA profiles, activeProfile :
        IF Len(profiles) = 0 THEN [err |-> TRUE, profile |-> NilProfile]
        ELSE IF Len(profiles) = 1 THEN [err |-> FALSE, profile |-> profiles[1]]
        ELSE IF activeProfile.err THEN [err |-> FALSE, profile |-> profiles[1]]
        ELSE With(indexOfName(profiles, activeProfile.profile.name, 1), LAMBDA currentIndex :
             IF currentIndex = 0 \/ currentIndex = Len(profiles)
             THEN [err |-> FALSE, profile |-> profiles[1]]
             ELSE [err |-> FALSE, profile |-> profiles[currentIndex + 1]]))

\* applyProfile without its second step: the credentials are left as they are.
applyProfileConfigOnly(w, profile, f) == SaveClaudeConfig(w, profile.claudeConfig, f)

applyProfile(w, profile, f) ==
    Bind(SaveClaudeConfig(w, profile.claudeConfig, f),
         LAMBDA r : saveCredentials(r.w, profile.credentials, f))

\* refreshProfile that updates nothing.
refreshProfileSkipped(w, currentProfile, f) == Halt(w, "ok")

\* SwitchToAccount, the account that is live has a profile: the profile is
\* updated with the state that is live.
refreshProfile(w, currentProfile, f) ==
    With2(LoadClaudeConfig(w), loadCredentials(w),
          LAMBDA currentClaudeConfig, currentCredentials :
        IF currentClaudeConfig.err \/ currentCredentials.err THEN Halt(w, "err")
        ELSE SaveProfile(w, [currentProfile EXCEPT
                                 !.claudeConfig = currentClaudeConfig.config,
                                 !.credentials = currentCredentials.creds], f))

\* SwitchToAccount, the account that is live has no profile: a failure to save
\* one is a warning.
Warned(r) == IF r.halt = "err" THEN Halt(r.w, "ok") ELSE Halt(r.w, r.halt)

currentEmailOf(w) ==
    With(LoadClaudeConfig(w), LAMBDA currentConfig :
        IF currentConfig.err THEN <<>> ELSE GetUserEmail(currentConfig.config))

\* SwitchToAccount, before it applies the target: the account that is live is saved.
saveCurrent(w, currentEmail, f) ==
    IF currentEmail = <<>> THEN Halt(w, "ok")
    ELSE With(LoadProfile(w, currentEmail), LAMBDA currentProfile :
         IF ~currentProfile.err THEN refreshProfile(w, currentProfile.profile, f)
         ELSE Warned(SaveCurrentAccount(w, currentEmail, <<>>, f)))

\* switchToTarget that marks the target as active before anything else.
switchToTargetActivatingFirst(w, targetProfile, f) ==
    Bind(Bind(SetActiveProfile(w, targetProfile.name, f),
              LAMBDA r : saveCurrent(r.w, currentEmailOf(r.w), f)),
         LAMBDA r : applyProfile(r.w, targetProfile, f))

\* SwitchToAccount once the target is loaded.
switchToTarget(w, targetProfile, f) ==
    Bind(Bind(saveCurrent(w, currentEmailOf(w), f),
              LAMBDA r : applyProfile(r.w, targetProfile, f)),
         LAMBDA r : SetActiveProfile(r.w, targetProfile.name, f))

targetOf(w, identifier) ==
    IF identifier = <<>> THEN GetNextProfile(w) ELSE LoadProfile(w, identifier)

\* SwitchToAccount that saves the account that is live before it loads the target.
SwitchToAccountSavingFirst(w, identifier, f) ==
    Bind(saveCurrent(w, currentEmailOf(w), f), LAMBDA r :
        With(targetOf(r.w, identifier), LAMBDA targetProfile :
            IF targetProfile.err THEN Halt(r.w, "err")
            ELSE Bind(applyProfile(r.w, targetProfile.profile, f),
                      LAMBDA a : SetActiveProfile(a.w, targetProfile.profile.name, f))))

SwitchToAccount(w, identifier, f) ==
    With(targetOf(w, identifier), LAMBDA targetProfile :
        IF targetProfile.err THEN Halt(w, "err")
        ELSE switchToTarget(w, targetProfile.profile, f))

RenameProfile(w, identifier, newName, newAlias, f) ==
    With(LoadProfile(w, identifier), LAMBDA profile :
        IF profile.err THEN Halt(w, "err")
        ELSE SaveProfile(w, [profile.profile EXCEPT
                                 !.name = IF newName # <<>> THEN newName ELSE @,
                                 !.alias = newAlias], f))

\* A profile file's "claude_config": null and "credentials": null, as
\* json.Unmarshal gives them to the pointers of Profile: no document, which is
\* not the empty document, and no credentials, which is not credentials with
\* empty tokens.
NilClaudeConfig == [null |-> TRUE]

NilCredentials == [accessToken |-> "", refreshToken |-> "", null |-> TRUE]

\* ValidateProfile without the check of the access token.
ValidateProfileIdentityOnly(w, identifier) ==
    With(LoadProfile(w, identifier), LAMBDA profile :
        IF profile.err THEN Halt(w, "err")
        ELSE IF profile.profile.claudeConfig = NilClaudeConfig THEN Halt(w, "err")
        ELSE IF ~HasOAuthAccount(profile.profile.claudeConfig) THEN Halt(w, "err")
        ELSE Halt(w, "ok"))

ValidateProfile(w, identifier) ==
    With(LoadProfile(w, identifier), LAMBDA profile :
        IF profile.err THEN Halt(w, "err")
        ELSE IF profile.profile.claudeConfig = NilClaudeConfig THEN Halt(w, "err")
        ELSE IF ~HasOAuthAccount(profile.profile.claudeConfig) THEN Halt(w, "err")
        ELSE IF \/ profile.profile.credentials = NilCredentials
                \/ profile.profile.credentials.accessToken = ""
             THEN Halt(w, "err")
        ELSE Halt(w, "ok"))

-----------------------------------------------------------------------------
(* package service *)

AddCurrentAccount(w, alias, f) ==
    Bind(SaveCurrentAccount(w, alias, alias, f),
         LAMBDA r : SetActiveProfile(r.w, r.profile.name, f))

RemoveAccount(w, identifier, f) == DeleteProfile(w, identifier, f)

\* GetCurrentAccount: the active profile is read, nothing is written.
GetCurrentAccount(w) == Halt(w, IF GetActiveProfile(w).err THEN "err" ELSE "ok")

RenameAccount(w, identifier, newAlias, f) == RenameProfile(w, identifier, <<>>, newAlias, f)

\* The names checkClaudeCodeNotRunning looks for on runtime.GOOS.
processNames(os) ==
    IF os = "darwin" THEN {"Claude Code", "claude-code"}
    ELSE IF os = "linux" THEN {"claude-code"}
    ELSE {}

\* isProcessRunning: pgrep -f prints the processes whose command line matches
\* the name; matched is the set of names for which it prints some.
isProcessRunning(os, processName, matched) ==
    os \in {"darwin", "linux"} /\ processName \in matched

checkClaudeCodeNotRunning(os, matched) ==
    IF os \notin {"darwin", "linux"} THEN "err"
    ELSE IF \E processName \in processNames(os) : isProcessRunning(os, processName, matched)
         THEN "err"
    ELSE "ok"

\* Service.SwitchToAccount without the check for the running application.
ServiceSwitchToAccountUnchecked(w, os, identifier, force, matched, f) ==
    SwitchToAccount(w, identifier, f)

\* Service.SwitchToAccount(identifier, force)
ServiceSwitchToAccount(w, os, identifier, force, matched, f) ==
    IF ~force /\ checkClaudeCodeNotRunning(os, matched) # "ok" THEN Halt(w, "err")
    ELSE SwitchToAccount(w, identifier, f)

-----------------------------------------------------------------------------
(* package storage: the secure key-value store.  What it keeps is the      *)
(* vault: on darwin the generic passwords of the service in the login      *)
(* keychain, by account; on linux the files of ~/.claude, by file name.    *)
(* A call returns the vault it leaves, the error it returns ("none", "not  *)
(* found", "failed", "unsupported platform") and the data it returns.      *)

Platforms == {"darwin", "linux", "windows"}

ServiceName == <<"s", "v", "c">>

EmptyVault == <<>>

Secret(data) == [st |-> "ok", data |-> data]

\* A file that os.WriteFile created and failed to write in full.
PartialSecret == [st |-> "partial", data |-> <<>>]

Returned(v, err, out) == [v |-> v, err |-> err, out |-> out]

TrimSuffix(s, c) == IF Len(s) > 0 /\ s[Len(s)] = c THEN SubSeq(s, 1, Len(s) - 1) ELSE s

Forget(v, name) == [x \in (DOMAIN v) \ {name} |-> v[x]]

\* The utility security(1): its exit status is 0, 44 when the keychain holds
\* no item of the account, and another one when it fails for any other reason;
\* find-generic-password -w prints the password and a newline.
Ran(v, status, output) == [v |-> v, status |-> status, output |-> output]

securityAddGenericPassword(v, key, data, f) ==
    IF Fails(f, "security") THEN Ran(v, 1, <<>>)
    ELSE Ran((key :> Secret(data)) @@ v, 0, <<>>)

securityFindGenericPassword(v, key, f) ==
    IF Fails(f, "security") THEN Ran(v, 1, <<>>)
    ELSE IF key \notin DOMAIN v THEN Ran(v, 44, <<>>)
    ELSE Ran(v, 0, v[key].data \o <<"\n">>)

securityDeleteGenericPassword(v, key, f) ==
    IF Fails(f, "security") THEN Ran(v, 1, <<>>)
    ELSE IF key \notin DOMAIN v THEN Ran(v, 44, <<>>)
    ELSE Ran(Forget(v, key), 0, <<>>)

MacOSKeychainStore(v, key, data, f) ==
    With(securityAddGenericPassword(v, key, data, f), LAMBDA cmd :
        Returned(cmd.v, IF cmd.status # 0 THEN "failed" ELSE "none", <<>>))

\* MacOSKeychain.Retrieve without the translation of exit status 44.
MacOSKeychainRetrieveUntranslated(v, key, f) ==
    With(securityFindGenericPassword(v, key, f), LAMBDA cmd :
        IF cmd.status # 0 THEN Returned(cmd.v, "failed", <<>>)
        ELSE Returned(cmd.v, "none", TrimSuffix(cmd.output, "\n")))

MacOSKeychainRetrieve(v, key, f) ==
    With(securityFindGenericPassword(v, key, f), LAMBDA cmd :
        IF cmd.status = 44 THEN Returned(cmd.v, "not found", <<>>)
        ELSE IF cmd.status # 0 THEN Returned(cmd.v, "failed", <<>>)
        ELSE Returned(cmd.v, "none", TrimSuffix(cmd.output, "\n")))

MacOSKeychainDelete(v, key, f) ==
    With(securityDeleteGenericPassword(v, key, f), LAMBDA cmd :
        IF cmd.status = 44 THEN Returned(cmd.v, "none", <<>>)
        ELSE IF cmd.status # 0 THEN Returned(cmd.v, "failed", <<>>)
        ELSE Returned(cmd.v, "none", <<>>))

\* The elements of a path, those between its separators: out holds the
\* elements before the i-th character, the last of them unfinished.
RECURSIVE SplitPath(_, _, _)
SplitPath(path, i, out) ==
    IF i > Len(path) THEN out
    ELSE IF path[i] = "/" THEN SplitPath(path, i + 1, Append(out, <<>>))
    ELSE SplitPath(path, i + 1, [out EXCEPT ![Len(out)] = Append(@, path[i])])

\* filepath.Clean on the elements: empty elements and "." are dropped, ".."
\* drops the element before it.
RECURSIVE CleanElements(_, _)
CleanElements(elements, out) ==
    IF elements = <<>> THEN out
    ELSE IF Head(elements) \in {<<>>, <<".">>} THEN CleanElements(Tail(elements), out)
    ELSE IF Head(elements) = <<".", ".">> /\ out # <<>> /\ out[Len(out)] # <<".", ".">>
         THEN CleanElements(Tail(elements), SubSeq(out, 1, Len(out) - 1))
    ELSE CleanElements(Tail(elements), Append(out, Head(elements)))

RECURSIVE JoinElements(_)
JoinElements(elements) ==
    IF elements = <<>> THEN <<>>
    ELSE IF Len(elements) = 1 THEN elements[1]
    ELSE elements[1] \o <<"/">> \o JoinElements(Tail(elements))

\* filepath.Join(dir, name): the two joined by a separator, and cleaned.
filepathJoin(dir, name) == JoinElements(CleanElements(SplitPath(dir \o <<"/">> \o name, 1, <<<<>>>>), <<>>))

\* filepath.Join(home, ".claude")
CredentialsDir == <<"~", "/", ".", "c", "l", "a", "u", "d", "e">>

\* filepath.Join(credentialsDir, fmt.Sprintf(".%s_%s.json", l.serviceName, key))
credentialsPath(key) ==
    filepathJoin(CredentialsDir,
                 <<".">> \o ServiceName \o <<"_">> \o key \o <<".", "j", "s", "o", "n">>)

tempPath(path) == path \o <<".", "t", "m", "p">>

LinuxFileStorageStore(v, key, data, f) ==
    IF Fails(f, "vault_mkdir") THEN Returned(v, "failed", <<>>)
    ELSE IF Fails(f, "vault_write")
         THEN Returned(IF f.kind = "partial"
                       THEN (tempPath(credentialsPath(key)) :> PartialSecret) @@ v ELSE v,
                       "failed", <<>>)
    ELSE IF Fails(f, "vault_rename")
         THEN Returned(Forget(v, tempPath(credentialsPath(key))), "failed", <<>>)
    ELSE Returned((credentialsPath(key) :> Secret(data))
                      @@ Forget(v, tempPath(credentialsPath(key))), "none", <<>>)

LinuxFileStorageRetrieve(v, key, f) ==
    IF Fails(f, "vault_read") THEN Returned(v, "failed", <<>>)
    ELSE IF credentialsPath(key) \notin DOMAIN v THEN Returned(v, "not found", <<>>)
    ELSE Returned(v, "none", v[credentialsPath(key)].data)

LinuxFileStorageDelete(v, key, f) ==
    IF Fails(f, "vault_remove") THEN Returned(v, "failed", <<>>)
    ELSE IF credentialsPath(key) \notin DOMAIN v THEN Returned(v, "none", <<>>)
    ELSE Returned(Forget(v, credentialsPath(key)), "none", <<>>)

\* The implementation for runtime.GOOS; "nil" is Go's nil.
NewSecureStorage(os) ==
    IF os = "darwin" THEN "MacOSKeychain"
    ELSE IF os = "linux" THEN "LinuxFileStorage"
    ELSE "nil"

NoKeychain == [built |-> FALSE, impl |-> "nil"]

NewKeychainStorage(os) == [built |-> TRUE, impl |-> NewSecureStorage(os)]

KeychainStorageStore(k, v, key, data, f) ==
    IF k.impl = "nil" THEN Returned(v, "unsupported platform", <<>>)
    ELSE IF k.impl = "MacOSKeychain" THEN MacOSKeychainStore(v, key, data, f)
    ELSE LinuxFileStorageStore(v, key, data, f)

KeychainStorageRetrieve(k, v, key, f) ==
    IF k.impl = "nil" THEN Returned(v, "unsupported platform", <<>>)
    ELSE IF k.impl = "MacOSKeychain" THEN MacOSKeychainRetrieve(v, key, f)
    ELSE LinuxFileStorageRetrieve(v, key, f)

KeychainStorageDelete(k, v, key, f) ==
    IF k.impl = "nil" THEN Returned(v, "unsupported platform", <<>>)
    ELSE IF k.impl = "MacOSKeychain" THEN MacOSKeychainDelete(v, key, f)
    ELSE LinuxFileStorageDelete(v, key, f)

\* The StorageManager of the accounts: its storage for runtime.GOOS, or the
\* error of its construction.
NoManager == [built |-> FALSE, storage |-> "nil"]

NewStorageManager(os, f) ==
    IF os = "darwin" THEN [err |-> "none", manager |-> [built |-> TRUE, storage |-> "KeychainStorage"]]
    ELSE IF os = "linux"
         THEN IF Fails(f, "data_mkdir")
              THEN [err |-> "failed", manager |-> NoManager]
              ELSE [err |-> "none", manager |-> [built |-> TRUE, storage |-> "FileStorage"]]
    ELSE [err |-> "unsupported platform", manager |-> NoManager]

\* No invocations run at the same time and no account manager is constructed.
NotRunning == [pc |-> <<>>]

NoAccounts == [built |-> FALSE, accounts |-> <<>>]

Idle ==
    /\ running = NotRunning
    /\ accounts = NoAccounts

\* The profile switching engine runs on linux and constructs no secure store.
StoreUnused ==
    /\ platform = "linux"
    /\ vault = EmptyVault
    /\ keychain = NoKeychain
    /\ manager = NoManager
    /\ Idle

-----------------------------------------------------------------------------
(* The external application and the user's inputs *)

EmailA == <<"a", "@", "x">>

EmailB == <<"b", "@", "x">>

\* A third address, which sanitizeFilename maps to the file name of EmailA.
EmailC == <<"a", "+", "x">>

EmailD == <<"d", "@", "x">>

AliasW == <<"w">>

Identifiers == {<<>>, EmailA, EmailB, EmailC, EmailD, AliasW}

Aliases == {<<>>, AliasW}

Identity(email, uuid) == [emailAddress |-> email, accountUuid |-> uuid]

Creds(token) == [accessToken |-> token, refreshToken |-> "r"]

\* A config document of the external application: its identity sub-document,
\* a setting of its own, and optionally a key of its own with the prefix "_cflip_".
AppDoc(identity, theme) ==
    [k \in {"oauthAccount", "theme"} |-> IF k = "oauthAccount" THEN identity ELSE theme]

LoggedOutDoc(theme) == [k \in {"theme"} |-> theme]

OnlyFirst(file) == <<file, NoFile, NoFile, NoFile>>

Scenario(files, creds) == [cfg |-> files, creds |-> creds]

LoggedInAs(email, uuid, theme, token) ==
    Scenario(OnlyFirst(DocFile(AppDoc(Identity(email, uuid), theme))), CredsFileOf(Creds(token)))

LoggedIn ==
    {LoggedInAs(EmailA, "ua", "dark", "ta1"),
     LoggedInAs(EmailA, "ua", "light", "ta2"),
     LoggedInAs(EmailB, "ub", "dark", "tb1"),
     LoggedInAs(EmailC, "uc", "dark", "tc1"),
     LoggedInAs(EmailD, "ud", "dark", "td1"),
     Scenario(OnlyFirst(DocFile(WithKey(AppDoc(Identity(EmailA, "ua"), "dark"), "_cflip_note", "n"))),
              CredsFileOf(Creds("ta1"))),
     Scenario(<<CorruptFile, DocFile(AppDoc(Identity(EmailB, "ub"), "dark")), NoFile, NoFile>>,
              CredsFileOf(Creds("tb1")))}

NotLoggedIn ==
    {Scenario(OnlyFirst(DocFile(LoggedOutDoc("dark"))), NoCredsFile),
     Scenario(OnlyFirst(DocFile(AppDoc(Identity(EmailA, ""), "dark"))), CredsFileOf(Creds("ta1"))),
     Scenario(OnlyFirst(DocFile(AppDoc(Identity(EmailA, "ua"), "dark"))), CredsFileOf(Creds(""))),
     Scenario(OnlyFirst(DocFile(AppDoc(Identity(EmailA, "ua"), "dark"))), CorruptCredsFile),
     Scenario(OnlyFirst(NoFile), NoCredsFile)}

LiveScenarios == LoggedIn \cup NotLoggedIn

-----------------------------------------------------------------------------
(* The state machine *)

W == [cfg |-> cfgFiles, bak |-> cfgBackup, tmp |-> cfgTmp, creds |-> credsFile,
      pfiles |-> profileFiles, index |-> indexFile]

SetWorld(w) ==
    /\ cfgFiles' = w.cfg
    /\ cfgBackup' = w.bak
    /\ cfgTmp' = w.tmp
    /\ credsFile' = w.creds
    /\ profileFiles' = w.pfiles
    /\ indexFile' = w.index
    /\ UNCHANGED <<storeVars, idleVars>>

SetWorldNowFiles(w) ==
    /\ cfgFiles = w.cfg
    /\ cfgBackup = w.bak
    /\ cfgTmp = w.tmp
    /\ credsFile = w.creds
    /\ profileFiles = w.pfiles
    /\ indexFile = w.index

SetWorldNow(w) == SetWorldNowFiles(w) /\ StoreUnused

\* The file system before anything was written to it.
EmptyWorld ==
    [cfg |-> OnlyFirst(NoFile), bak |-> NoFile, tmp |-> NoFile, creds |-> NoCredsFile,
     pfiles |-> <<>>, index |-> NoIndexFile]

\* What is remembered of an invocation: the command line, the fault it met, how
\* it ended ("ok", "err", "crash") and the file system it started from.
Invocation(op, id, alias, f, halt, before) ==
    [op |-> op, id |-> id, alias |-> alias, fault |-> f, halt |-> halt, before |-> before]

\* An invocation counts against the bounds, and the run is followed until
\* MaxFaults invocations have met a fault.  An invocation that left the file
\* system as it was is not continued from: what follows it follows the state
\* before it as well.
Continues ==
    /\ nFaults < MaxFaults
    /\ last.op = "external" \/ W # last.before

\* A fault at a step the invocation does not reach is no fault: r is the result
\* with the fault f, r0 the result without.
Invoked(op, id, alias, f, r, r0) ==
    /\ f = NoFault \/ r # r0
    /\ SetWorld(r.w)
    /\ last' = Invocation(op, id, alias, f, r.halt, W)
    /\ nOps' = nOps + 1
    /\ nFaults' = IF f = NoFault THEN nFaults ELSE nFaults + 1
    /\ UNCHANGED nExt

\* The write steps each operation passes through.
AddSites ==
    {"profile_write", "profile_rename", "index_write", "index_rename",
     "active_write", "active_rename"}

SwitchSites == Sites \ {"remove"}

RemoveSites == {"remove", "index_write", "index_rename"}

RenameSites == {"profile_write", "profile_rename", "index_write", "index_rename"}

ApplySites == {"backup", "config_write", "config_rename"}

Init ==
    /\ \E s \in LiveScenarios : cfgFiles = s.cfg /\ credsFile = s.creds
    /\ cfgBackup = NoFile
    /\ cfgTmp = NoFile
    /\ profileFiles = <<>>
    /\ indexFile = NoIndexFile
    /\ StoreUnused
    /\ last = Invocation("external", <<>>, <<>>, NoFault, "ok", EmptyWorld)
    /\ nOps = 0
    /\ nFaults = 0
    /\ nExt = 0

\* The external application rewrites its config files and its credentials.
\* Two rewrites in a row are one rewrite.
External ==
    /\ nExt < MaxExt
    /\ Continues
    /\ last.op # "external"
    /\ \E s \in LiveScenarios :
         /\ <<s.cfg, s.creds>> # <<cfgFiles, credsFile>>
         /\ cfgFiles' = s.cfg
         /\ credsFile' = s.creds
    /\ last' = Invocation("external", <<>>, <<>>, NoFault, "ok", W)
    /\ nExt' = nExt + 1
    /\ UNCHANGED <<cfgBackup, cfgTmp, profileFiles, indexFile, nOps, nFaults, storeVars, idleVars>>

\* cflip add [--alias a], meeting one of the faults F
AddMeeting(F) ==
    /\ nOps < MaxOps
    /\ Continues
    /\ \E alias \in Aliases :
         LET r0 == AddCurrentAccount(W, alias, NoFault) IN
         \E f \in F :
           Invoked("add", <<>>, alias, f, AddCurrentAccount(W, alias, f), r0)

\* cflip switch [account], for an account of Ids and meeting one of the faults F
SwitchMeeting(Ids, F) ==
    /\ nOps < MaxOps
    /\ Continues
    /\ \E id \in Ids :
         LET r0 == SwitchToAccount(W, id, NoFault) IN
         \E f \in F :
           Invoked("switch", id, <<>>, f, SwitchToAccount(W, id, f), r0)

\* cflip remove <account>, meeting one of the faults F
RemoveMeeting(F) ==
    /\ nOps < MaxOps
    /\ Continues
    /\ \E id \in Identifiers \ {<<>>} :
         LET r0 == RemoveAccount(W, id, NoFault) IN
         \E f \in F :
           Invoked("remove", id, <<>>, f, RemoveAccount(W, id, f), r0)

\* cflip rename <account> <alias>, meeting one of the faults F
RenameMeeting(F) ==
    /\ nOps < MaxOps
    /\ Continues
    /\ \E id \in Identifiers \ {<<>>}, alias \in Aliases :
         LET r0 == RenameAccount(W, id, alias, NoFault) IN
         \E f \in F :
           Invoked("rename", id, alias, f, RenameAccount(W, id, alias, f), r0)

Add == AddMeeting({NoFault})

Switch == SwitchMeeting(Identifiers, {NoFault})

Remove == RemoveMeeting({NoFault})

Rename == RenameMeeting({NoFault})

Next == External \/ Add \/ Switch \/ Remove \/ Rename

Spec == Init /\ [][Next]_vars

-----------------------------------------------------------------------------
(* Switching on a file system whose writes can fail and under a process    *)
(* that can be stopped.                                                     *)

SwitchFault == SwitchMeeting(Identifiers, FaultsAt(SwitchSites) \ {NoFault})

NextFaults == External \/ Add \/ Switch \/ SwitchFault

SpecFaults == Init /\ [][NextFaults]_vars

-----------------------------------------------------------------------------
(* Capture followed at once by apply: config.LoadClaudeConfig, then         *)
(* config.SaveClaudeConfig of the document it returned.                     *)

RoundTripOf(w, f) ==
    With(LoadClaudeConfig(w), LAMBDA c :
        IF c.err THEN Halt(w, "err") ELSE SaveClaudeConfig(w, c.config, f))

RoundTrip ==
    /\ nOps < MaxOps
    /\ Continues
    /\ LET r0 == RoundTripOf(W, NoFault) IN
       \E f \in FaultsAt(ApplySites) :
         Invoked("roundtrip", <<>>, <<>>, f, RoundTripOf(W, f), r0)

NextRoundTrip == External \/ RoundTrip

SpecRoundTrip == Init /\ [][NextRoundTrip]_vars

-----------------------------------------------------------------------------
(* cflip switch without an account, from the repositories that up to       *)
(* MaxSaved add commands leave, the account added last removed again or    *)
(* not, the removal completed or stopped after the profile file was        *)
(* removed.                                                                 *)

LiveOf(email) ==
    IF email = EmailA THEN LoggedInAs(EmailA, "ua", "dark", "ta1")
    ELSE IF email = EmailB THEN LoggedInAs(EmailB, "ub", "dark", "tb1")
    ELSE LoggedInAs(EmailD, "ud", "dark", "td1")

SavedAccounts == {EmailA, EmailB, EmailD}

\* The add commands: which accounts, in which order, under which alias.
AddCommands ==
    {adds \in UNION {[1..n -> [email : SavedAccounts, alias : Aliases]] : n \in 1..MaxSaved} :
        \A i, j \in DOMAIN adds : adds[i].email = adds[j].email => i = j}

RECURSIVE AddedAll(_, _)
AddedAll(w, adds) ==
    IF adds = <<>> THEN w
    ELSE AddedAll(AddCurrentAccount([w EXCEPT !.cfg = LiveOf(Head(adds).email).cfg,
                                              !.creds = LiveOf(Head(adds).email).creds],
                                    Head(adds).alias, NoFault).w,
                  Tail(adds))

SavedRepositories ==
    UNION {{AddedAll(EmptyWorld, adds),
            RemoveAccount(AddedAll(EmptyWorld, adds), adds[Len(adds)].email, NoFault).w,
            RemoveAccount(AddedAll(EmptyWorld, adds), adds[Len(adds)].email,
                          [at |-> "remove", kind |-> "crash"]).w} : adds \in AddCommands}

InitSaved ==
    /\ \E w \in SavedRepositories : SetWorldNow(w)
    /\ last = Invocation("external", <<>>, <<>>, NoFault, "ok", EmptyWorld)
    /\ nOps = 0
    /\ nFaults = 0
    /\ nExt = 0

SwitchNext == SwitchMeeting({<<>>}, {NoFault})

NextSequence == SwitchNext

SpecSequence == InitSaved /\ [][NextSequence]_vars

-----------------------------------------------------------------------------
(* Every operation on the repository, Switcher.SetActiveProfile included,   *)
(* from the repositories that adds and a completed removal leave.           *)

\* Switcher.SetActiveProfile(identifier), meeting one of the faults F
SetActiveMeeting(F) ==
    /\ nOps < MaxOps
    /\ Continues
    /\ \E id \in Identifiers \ {<<>>} :
         LET r0 == SetActiveProfile(W, id, NoFault) IN
         \E f \in F :
           Invoked("setactive", id, <<>>, f, SetActiveProfile(W, id, f), r0)

SetActive == SetActiveMeeting({NoFault})

\* The repositories that add commands leave, and those that the removal of one
\* of the accounts added then leaves: every command has run to its end.
CompletedRepositories ==
    UNION {{AddedAll(EmptyWorld, adds)}
           \cup {RemoveAccount(AddedAll(EmptyWorld, adds), adds[i].email, NoFault).w :
                     i \in DOMAIN adds} : adds \in AddCommands}

InitCompleted ==
    /\ \E w \in CompletedRepositories : SetWorldNow(w)
    /\ last = Invocation("external", <<>>, <<>>, NoFault, "ok", EmptyWorld)
    /\ nOps = 0
    /\ nFaults = 0
    /\ nExt = 0

NextRepository == Add \/ Switch \/ Remove \/ Rename \/ SetActive

SpecRepository == InitCompleted /\ [][NextRepository]_vars

-----------------------------------------------------------------------------
(* cflip current and cflip switch on the repositories that adds and a       *)
(* removal, completed or stopped, leave.                                    *)

\* cflip current
Current ==
    /\ nOps < MaxOps
    /\ Continues
    /\ Invoked("current", <<>>, <<>>, NoFault, GetCurrentAccount(W), GetCurrentAccount(W))

NextCurrent == SwitchNext \/ Current

SpecCurrent == InitSaved /\ [][NextCurrent]_vars

-----------------------------------------------------------------------------
(* Removing on a file system whose writes can fail and under a process that *)
(* can be stopped.                                                          *)

RemoveFault == RemoveMeeting(FaultsAt(RemoveSites) \ {NoFault})

NextRemoveFaults == External \/ Add \/ Switch \/ Remove \/ RemoveFault

SpecRemoveFaults == Init /\ [][NextRemoveFaults]_vars

-----------------------------------------------------------------------------
(* The commands on a repository some of whose profile files no longer parse. *)

\* A profile file is damaged: what it holds is no profile any more.
Damage ==
    /\ nExt < MaxExt
    /\ \E x \in DOMAIN profileFiles :
         /\ profileFiles[x].st = "ok"
         /\ profileFiles' = [profileFiles EXCEPT ![x] = CorruptProfileFile]
    /\ last' = Invocation("external", <<>>, <<>>, NoFault, "ok", W)
    /\ nExt' = nExt + 1
    /\ UNCHANGED <<cfgFiles, cfgBackup, cfgTmp, credsFile, indexFile, nOps, nFaults, storeVars, idleVars>>

NextDamaged == Damage \/ Switch \/ Current

SpecDamaged == InitCompleted /\ [][NextDamaged]_vars

-----------------------------------------------------------------------------
(* Validation of the saved profiles, on a repository whose profile files    *)
(* may have been edited by hand.  The oauthAccount of a config document is  *)
(* an object whenever the key is there.                                     *)

\* What an edit can take out of a profile file that still parses.
Edits == {"claude_config", "oauthAccount", "credentials", "accessToken"}

Edited(p, e) ==
    IF e = "claude_config" THEN [p EXCEPT !.claudeConfig = NilClaudeConfig]
    ELSE IF e = "oauthAccount"
         THEN [p EXCEPT !.claudeConfig =
                  IF @ = NilClaudeConfig THEN @ ELSE WithoutKeys(@, {"oauthAccount"})]
    ELSE IF e = "credentials" THEN [p EXCEPT !.credentials = NilCredentials]
    ELSE [p EXCEPT !.credentials =
             IF @ = NilCredentials THEN @ ELSE [@ EXCEPT !.accessToken = ""]]

\* A profile file is edited: it parses, and part of what add saved is gone.
Edit ==
    /\ nExt < MaxExt
    /\ \E x \in DOMAIN profileFiles, e \in Edits :
         /\ profileFiles[x].st = "ok"
         /\ Edited(profileFiles[x].profile, e) # profileFiles[x].profile
         /\ profileFiles' = [profileFiles EXCEPT ![x] = ProfileFileOf(Edited(@.profile, e))]
    /\ last' = Invocation("external", <<>>, <<>>, NoFault, "ok", W)
    /\ nExt' = nExt + 1
    /\ UNCHANGED <<cfgFiles, cfgBackup, cfgTmp, credsFile, indexFile, nOps, nFaults, storeVars, idleVars>>

\* Switcher.ValidateProfile(identifier), which cflip validate calls for each
\* profile listed
Validate ==
    /\ nOps < MaxOps
    /\ \E id \in Identifiers \ {<<>>} :
         Invoked("validate", id, <<>>, NoFault, ValidateProfile(W, id), ValidateProfile(W, id))

NextValidate == Edit \/ Validate

SpecValidate == InitCompleted /\ [][NextValidate]_vars

-----------------------------------------------------------------------------
(* The secure store on each platform: a KeychainStorage is constructed and *)
(* called; a StorageManager is constructed.  A call can meet a failure of  *)
(* the utility or of the file system that has nothing to do with the key.  *)

\* A key whose file name has path elements that filepath.Join resolves.
KeyThroughParent == <<"x", "/", ".", ".", "/", ".">> \o ServiceName \o <<"_", "k">>

VaultKeys == {<<"k">>, <<"j">>, KeyThroughParent}

Secrets == {<<>>, <<"p">>, <<"q", "\n">>}

VaultFaults ==
    {NoFault} \cup [at : {"security", "vault_mkdir", "vault_write", "vault_rename",
                          "vault_read", "vault_remove", "data_mkdir"}, kind : {"error"}]
              \cup [at : {"vault_write"}, kind : {"partial"}]

\* What is remembered of a call: the method, its arguments, the fault it met,
\* the error and the data it returned, and the vault and the store before it.
Call(op, key, data, f, err, out) ==
    [op |-> op, key |-> key, data |-> data, fault |-> f, err |-> err, out |-> out,
     before |-> [vault |-> vault, keychain |-> keychain, manager |-> manager]]

InitStore ==
    /\ SetWorldNowFiles(EmptyWorld)
    /\ platform \in Platforms
    /\ vault = EmptyVault
    /\ keychain = NoKeychain
    /\ manager = NoManager
    /\ Idle
    /\ last = [op |-> "none", key |-> <<>>, data |-> <<>>, fault |-> NoFault, err |-> "none",
               out |-> <<>>,
               before |-> [vault |-> EmptyVault, keychain |-> NoKeychain, manager |-> NoManager]]
    /\ nOps = 0
    /\ nFaults = 0
    /\ nExt = 0

\* A call of the store: r is what it returns with the fault f, r0 without.
Called(op, key, data, f, r, r0) ==
    /\ f = NoFault \/ (nFaults < MaxFaults /\ r # r0)
    /\ vault' = r.v
    /\ last' = Call(op, key, data, f, r.err, r.out)
    /\ nOps' = nOps + 1
    /\ nFaults' = IF f = NoFault THEN nFaults ELSE nFaults + 1
    /\ UNCHANGED <<cfgFiles, cfgBackup, cfgTmp, credsFile, profileFiles, indexFile, nExt,
                   platform, keychain, manager, idleVars>>

\* storage.NewKeychainStorage(serviceName)
ConstructKeychain ==
    /\ ~keychain.built
    /\ keychain' = NewKeychainStorage(platform)
    /\ last' = Call("NewKeychainStorage", <<>>, <<>>, NoFault, "none", <<>>)
    /\ UNCHANGED <<cfgFiles, cfgBackup, cfgTmp, credsFile, profileFiles, indexFile,
                   nOps, nFaults, nExt, platform, vault, manager, idleVars>>

\* storage.NewStorageManager()
ConstructManager ==
    /\ ~manager.built
    /\ last.op # "NewStorageManager"
    /\ \E f \in {g \in VaultFaults : g.at \in {"none", "data_mkdir"}} :
         /\ f = NoFault \/ (nFaults < MaxFaults /\ NewStorageManager(platform, f)
                                                     # NewStorageManager(platform, NoFault))
         /\ manager' = NewStorageManager(platform, f).manager
         /\ last' = Call("NewStorageManager", <<>>, <<>>, f, NewStorageManager(platform, f).err, <<>>)
         /\ nFaults' = IF f = NoFault THEN nFaults ELSE nFaults + 1
    /\ UNCHANGED <<cfgFiles, cfgBackup, cfgTmp, credsFile, profileFiles, indexFile,
                   nOps, nExt, platform, vault, keychain, idleVars>>

\* KeychainStorage.Store(key, data)
StoreSecret ==
    /\ keychain.built
    /\ nOps < MaxOps
    /\ \E key \in VaultKeys, data \in Secrets, f \in VaultFaults :
         Called("Store", key, data, f, KeychainStorageStore(keychain, vault, key, data, f),
                KeychainStorageStore(keychain, vault, key, data, NoFault))

\* KeychainStorage.Retrieve(key)
RetrieveSecret ==
    /\ keychain.built
    /\ nOps < MaxOps
    /\ \E key \in VaultKeys, f \in VaultFaults :
         Called("Retrieve", key, <<>>, f, KeychainStorageRetrieve(keychain, vault, key, f),
                KeychainStorageRetrieve(keychain, vault, key, NoFault))

\* KeychainStorage.Delete(key)
DeleteSecret ==
    /\ keychain.built
    /\ nOps < MaxOps
    /\ \E key \in VaultKeys, f \in VaultFaults :
         Called("Delete", key, <<>>, f, KeychainStorageDelete(keychain, vault, key, f),
                KeychainStorageDelete(keychain, vault, key, NoFault))

NextStore == ConstructKeychain \/ ConstructManager \/ StoreSecret \/ RetrieveSecret \/ DeleteSecret

SpecStore == InitStore /\ [][NextStore]_vars

-----------------------------------------------------------------------------
(* cflip switch [--force] while the external application may be running.   *)

\* The names a process of which pgrep may find.
ProcessesFound == SUBSET {"Claude Code", "claude-code"}

\* An invocation, with the flag it was given and the processes pgrep found.
Guarded(inv, force, matched) ==
    [op |-> inv.op, id |-> inv.id, alias |-> inv.alias, fault |-> inv.fault, halt |-> inv.halt,
     before |-> inv.before, force |-> force, matched |-> matched]

\* Service.SwitchToAccount(identifier, force)
GuardedSwitch ==
    /\ nOps < MaxOps
    /\ Continues
    /\ \E id \in Identifiers, force \in BOOLEAN, matched \in ProcessesFound :
         LET r == ServiceSwitchToAccount(W, platform, id, force, matched, NoFault) IN
         /\ SetWorld(r.w)
         /\ last' = Guarded(Invocation("switch", id, <<>>, NoFault, r.halt, W), force, matched)
    /\ nOps' = nOps + 1
    /\ UNCHANGED <<nFaults, nExt>>

NextService == GuardedSwitch

SpecService == InitCompleted /\ [][NextService]_vars

-----------------------------------------------------------------------------
(* Capture over every combination of candidate config files: each is       *)
(* missing, unparseable, the JSON value null or a document of its own; the *)
(* credentials are missing, unparseable or there.                          *)

Themes == <<"dark", "light", "blue", "green">>

CandidateFiles(i) ==
    {NoFile, CorruptFile, NullFile, DocFile(AppDoc(Identity(EmailA, "ua"), Themes[i]))}

InitCapture ==
    /\ cfgFiles \in {files \in [1..NumConfigPaths -> UNION {CandidateFiles(i) : i \in 1..NumConfigPaths}] :
                        \A i \in 1..NumConfigPaths : files[i] \in CandidateFiles(i)}
    /\ credsFile \in {NoCredsFile, CorruptCredsFile, CredsFileOf(Creds("ta1"))}
    /\ cfgBackup = NoFile
    /\ cfgTmp = NoFile
    /\ profileFiles = <<>>
    /\ indexFile = NoIndexFile
    /\ StoreUnused
    /\ last = Invocation("external", <<>>, <<>>, NoFault, "ok", EmptyWorld)
    /\ nOps = 0
    /\ nFaults = 0
    /\ nExt = 0

\* config.LoadClaudeConfig(): what it returns is remembered with the invocation.
CaptureLive ==
    /\ nOps < MaxOps
    /\ last.op = "external"
    /\ last' = [op |-> "capture", id |-> <<>>, alias |-> <<>>, fault |-> NoFault,
                halt |-> IF LoadClaudeConfig(W).err THEN "err" ELSE "ok",
                out |-> LoadClaudeConfig(W).config, before |-> W]
    /\ nOps' = nOps + 1
    /\ UNCHANGED <<cfgFiles, cfgBackup, cfgTmp, credsFile, profileFiles, indexFile,
                   nFaults, nExt, storeVars, idleVars>>

NextCapture == CaptureLive

SpecCapture == InitCapture /\ [][NextCapture]_vars

-----------------------------------------------------------------------------
(* Two invocations that run at the same time.  Each one saves a document   *)
(* of its own to the same shared file, the index (SaveConfig) or the live  *)
(* config (SaveClaudeConfig), through the same temporary path.  Files are  *)
(* sequences of bytes here; os.WriteFile is an open that creates or        *)
(* truncates the file followed by a write through the descriptor, and a    *)
(* descriptor follows its file when the file is renamed.                   *)

Procs == {1, 2}

SharedFiles == {"index", "config"}

Missing == [exists |-> FALSE, bytes |-> <<>>]

Present(bytes) == [exists |-> TRUE, bytes |-> bytes]

\* What an earlier invocation left in the shared file.
InitialDocument == <<"{", "}">>

\* json.MarshalIndent's output in the invocation p.
Marshalled(p) == IF p = 1 THEN <<"{", "a", "}">> ELSE <<"{", "b", "b", "}">>

\* A write of data at offset 0 of a file that holds bytes.
WriteAt(bytes, data) == data \o SubSeq(bytes, Len(data) + 1, Len(bytes))

FirstStep(shared) == IF shared = "config" THEN "copy" ELSE "open"

InitConcurrent ==
    /\ SetWorldNowFiles(EmptyWorld)
    /\ platform = "linux"
    /\ vault = EmptyVault
    /\ keychain = NoKeychain
    /\ manager = NoManager
    /\ accounts = NoAccounts
    /\ \E shared \in SharedFiles, target \in {Missing, Present(InitialDocument)} :
         running = [shared |-> shared, target |-> target, tmp |-> Missing, bak |-> Missing,
                    pc |-> [p \in Procs |-> FirstStep(shared)],
                    fd |-> [p \in Procs |-> "closed"]]
    /\ last = [op |-> "none", proc |-> 0]
    /\ nOps = 0
    /\ nFaults = 0
    /\ nExt = 0

Stepped(op, p, r) ==
    /\ running' = r
    /\ last' = [op |-> op, proc |-> p]
    /\ UNCHANGED <<cfgFiles, cfgBackup, cfgTmp, credsFile, profileFiles, indexFile,
                   nOps, nFaults, nExt, storeVars, accounts>>

\* SaveClaudeConfig: os.Stat(configPath) and copyFile(configPath, backupPath)
CopyToBackup(p) ==
    /\ running.pc[p] = "copy"
    /\ Stepped("copy", p,
               [running EXCEPT !.bak = IF running.target.exists THEN running.target ELSE @,
                               !.pc[p] = "open"])

\* os.WriteFile(tempPath, ...): OpenFile with O_WRONLY|O_CREATE|O_TRUNC
OpenTemp(p) ==
    /\ running.pc[p] = "open"
    /\ Stepped("open", p, [running EXCEPT !.tmp = Present(<<>>), !.fd[p] = "tmp",
                                          !.pc[p] = "write"])

\* os.WriteFile(tempPath, ...): Write and Close.  The bytes go to the file the
\* descriptor was opened on, wherever that file is by now.
WriteTemp(p) ==
    /\ running.pc[p] = "write"
    /\ Stepped("write", p,
               [running EXCEPT
                  !.tmp = IF running.fd[p] = "tmp"
                          THEN Present(WriteAt(@.bytes, Marshalled(p))) ELSE @,
                  !.target = IF running.fd[p] = "target"
                             THEN Present(WriteAt(@.bytes, Marshalled(p))) ELSE @,
                  !.fd[p] = "closed",
                  !.pc[p] = "rename"])

\* os.Rename(tempPath, path); os.Remove(tempPath) after a failure finds nothing
\* to remove.
RenameTemp(p) ==
    /\ running.pc[p] = "rename"
    /\ IF running.tmp.exists
       THEN Stepped("rename", p,
                    [running EXCEPT
                       !.target = running.tmp,
                       !.tmp = Missing,
                       !.fd = [q \in Procs |-> IF @[q] = "tmp" THEN "target"
                                               ELSE IF @[q] = "target" THEN "gone"
                                               ELSE @[q]],
                       !.pc[p] = "done"])
       ELSE Stepped("rename", p, [running EXCEPT !.pc[p] = "failed"])

NextConcurrent ==
    \E p \in Procs : CopyToBackup(p) \/ OpenTemp(p) \/ WriteTemp(p) \/ RenameTemp(p)

SpecConcurrent == InitConcurrent /\ [][NextConcurrent]_vars

-----------------------------------------------------------------------------
(* cflip switch B followed at once by cflip switch A, on the repositories   *)
(* that adds and a completed removal leave and after what the external     *)
(* application did to the live state.                                      *)

ThereAndBackOf(w, there, back) ==
    Bind(SwitchToAccount(w, there, NoFault),
         LAMBDA r : SwitchToAccount(r.w, back, NoFault))

ThereAndBack ==
    /\ nOps < MaxReturns
    /\ Continues
    /\ \E there, back \in Identifiers \ {<<>>} :
         /\ SetWorld(ThereAndBackOf(W, there, back).w)
         /\ last' = [op |-> "thereandback", id |-> there, back |-> back, fault |-> NoFault,
                     halt |-> ThereAndBackOf(W, there, back).halt, before |-> W]
    /\ nOps' = nOps + 1
    /\ UNCHANGED <<nFaults, nExt>>

NextThereAndBack == External \/ ThereAndBack

SpecThereAndBack == InitCompleted /\ [][NextThereAndBack]_vars

-----------------------------------------------------------------------------
(* cflip switch, as many times in a row as there are profiles, with no     *)
(* external change in between, on the repositories that adds and a         *)
(* completed removal leave, an alias that is another account's email       *)
(* included.  The run remembers the repository it started from and the     *)
(* active profile after each switch.                                       *)

\* Two accounts added, one of them under an alias that is the other's email.
NamedAfterAnother ==
    {AddedAll(EmptyWorld, <<[email |-> q[1], alias |-> q[2]],
                            [email |-> q[2], alias |-> AliasW]>>) :
        q \in {q \in SavedAccounts \X SavedAccounts : q[1] # q[2]}}
    \cup {AddedAll(EmptyWorld, <<[email |-> q[2], alias |-> AliasW],
                                 [email |-> q[1], alias |-> q[2]]>>) :
              q \in {q \in SavedAccounts \X SavedAccounts : q[1] # q[2]}}

InitCycle ==
    /\ \E w \in CompletedRepositories \cup NamedAfterAnother :
         /\ SetWorldNow(w)
         /\ last = [op |-> "none", id |-> <<>>, alias |-> <<>>, fault |-> NoFault, halt |-> "ok",
                    before |-> w, start |-> w, visited |-> <<>>]
    /\ nOps = 0
    /\ nFaults = 0
    /\ nExt = 0

CycleStep ==
    /\ last.halt = "ok"
    /\ Len(last.visited) < Len(ListProfiles(last.start))
    /\ LET r == SwitchToAccount(W, <<>>, NoFault) IN
         /\ SetWorld(r.w)
         /\ last' = [op |-> "switch", id |-> <<>>, alias |-> <<>>, fault |-> NoFault,
                     halt |-> r.halt, before |-> W, start |-> last.start,
                     visited |-> IF r.halt = "ok"
                                 THEN Append(last.visited, LoadConfig(r.w).config.activeProfile)
                                 ELSE last.visited]
    /\ nOps' = nOps + 1
    /\ UNCHANGED <<nFaults, nExt>>

NextCycle == CycleStep

SpecCycle == InitCycle /\ [][NextCycle]_vars

-----------------------------------------------------------------------------
(* package auth: AccountManager.  am.accounts is a map from the ID to the  *)
(* account; an account is its ID, Email, Alias, AccessToken and IsActive.  *)
(* The order in which Go ranges over a map is not fixed: a lookup by email *)
(* returns any of the accounts with the email.                             *)

NilAccount == [nil |-> TRUE]

Account(id, email, alias, token, active) ==
    [nil |-> FALSE, ID |-> id, Email |-> email, Alias |-> alias, AccessToken |-> token,
     IsActive |-> active]

NewAccountManager == [built |-> TRUE, accounts |-> <<>>]

\* fmt.Sprintf("account_%s_%d", email, time.Now().Unix())
generateAccountID(email, now) == <<"account_">> \o email \o <<"_", now>>

\* The IDs of the accounts GetAccount(identifier) can return; none: not found.
GetAccount(am, identifier) ==
    IF identifier \in DOMAIN am THEN {identifier}
    ELSE {id \in DOMAIN am : am[id].Email = identifier}

Managed(am, err) == [am |-> am, err |-> err]

AddAccount(am, account, now) ==
    IF account.nil THEN Managed(am, "failed")
    ELSE IF account.Email = <<>> THEN Managed(am, "failed")
    ELSE IF account.AccessToken = "" THEN Managed(am, "failed")
    ELSE With(IF account.ID = <<>> THEN generateAccountID(account.Email, now) ELSE account.ID,
              LAMBDA id : Managed((id :> [account EXCEPT !.ID = id]) @@ am, "none"))

\* RemoveAccount once GetAccount returned the account with the ID id.
RemoveAccountFound(am, id) == Managed([x \in (DOMAIN am) \ {id} |-> am[x]], "none")

\* SetActiveAccount once GetAccount returned the account with the ID id.
SetActiveAccountFound(am, id) == Managed([x \in DOMAIN am |-> [am[x] EXCEPT !.IsActive = (x = id)]], "none")

\* UpdateAccount once GetAccount returned the account with the ID id.
UpdateAccountFound(am, id, account) ==
    Managed([am EXCEPT ![id].Email = account.Email, ![id].Alias = account.Alias,
                       ![id].AccessToken = account.AccessToken], "none")

\* RenameAccount once GetAccount returned the account with the ID id.
RenameAccountFound(am, id, newAlias) ==
    IF newAlias # <<>> /\ \E x \in DOMAIN am : am[x].ID # am[id].ID /\ am[x].Alias = newAlias
    THEN Managed(am, "failed")
    ELSE Managed([am EXCEPT ![id].Alias = newAlias], "none")

\* The IDs of the accounts GetActiveAccount can return; none: an error.
GetActiveAccount(am) == {id \in DOMAIN am : am[id].IsActive}

(* The calls of an AccountManager, from its construction on. *)

AccountIDs == {<<>>, <<"i1">>, <<"i2">>}

AccountEmails == {<<>>, EmailA, EmailB}

AccountIdentifiers == {<<"i1">>, <<"i2">>, EmailA, EmailB}

AccountsGiven ==
    {NilAccount} \cup {Account(id, email, alias, token, active) :
                          id \in AccountIDs, email \in AccountEmails, alias \in Aliases,
                          token \in {"", "t"}, active \in BOOLEAN}

Clock == {"1", "2"}

InitManager ==
    /\ SetWorldNowFiles(EmptyWorld)
    /\ platform = "linux"
    /\ vault = EmptyVault
    /\ keychain = NoKeychain
    /\ manager = NoManager
    /\ running = NotRunning
    /\ accounts = NewAccountManager
    /\ last = [op |-> "NewAccountManager", identifier |-> <<>>, found |-> <<>>, err |-> "none",
               before |-> <<>>]
    /\ nOps = 0
    /\ nFaults = 0
    /\ nExt = 0

\* A call of the manager that returned r; found is the ID GetAccount resolved.
Managing(op, identifier, found, r) ==
    /\ nOps < MaxOps
    /\ accounts' = [accounts EXCEPT !.accounts = r.am]
    /\ last' = [op |-> op, identifier |-> identifier, found |-> found, err |-> r.err,
                before |-> accounts.accounts]
    /\ nOps' = nOps + 1
    /\ UNCHANGED <<cfgFiles, cfgBackup, cfgTmp, credsFile, profileFiles, indexFile,
                   nFaults, nExt, storeVars, running>>

\* A call that found no account for its identifier.
NotFound(op, identifier) ==
    /\ GetAccount(accounts.accounts, identifier) = {}
    /\ Managing(op, identifier, <<>>, Managed(accounts.accounts, "not found"))

AddAnAccount ==
    \E account \in AccountsGiven, now \in Clock :
        Managing("AddAccount", IF account.nil THEN <<>> ELSE account.ID, <<>>,
                 AddAccount(accounts.accounts, account, now))

UpdateAnAccount ==
    \E account \in AccountsGiven :
        IF account.nil
        THEN Managing("UpdateAccount", <<>>, <<>>, Managed(accounts.accounts, "failed"))
        ELSE \/ NotFound("UpdateAccount", account.ID)
             \/ \E id \in GetAccount(accounts.accounts, account.ID) :
                  Managing("UpdateAccount", account.ID, id,
                           UpdateAccountFound(accounts.accounts, id, account))

RenameAnAccount ==
    \E identifier \in AccountIdentifiers, newAlias \in Aliases :
        \/ NotFound("RenameAccount", identifier)
        \/ \E id \in GetAccount(accounts.accounts, identifier) :
             Managing("RenameAccount", identifier, id,
                      RenameAccountFound(accounts.accounts, id, newAlias))

RemoveAnAccount ==
    \E identifier \in AccountIdentifiers :
        \/ NotFound("RemoveAccount", identifier)
        \/ \E id \in GetAccount(accounts.accounts, identifier) :
             Managing("RemoveAccount", identifier, id, RemoveAccountFound(accounts.accounts, id))

SetAnActiveAccount ==
    \E identifier \in AccountIdentifiers :
        \/ NotFound("SetActiveAccount", identifier)
        \/ \E id \in GetAccount(accounts.accounts, identifier) :
             Managing("SetActiveAccount", identifier, id,
                      SetActiveAccountFound(accounts.accounts, id))

NextManager ==
    AddAnAccount \/ UpdateAnAccount \/ RenameAnAccount \/ RemoveAnAccount \/ SetAnActiveAccount

SpecManager == InitManager /\ [][NextManager]_vars

-----------------------------------------------------------------------------
(* What the properties below speak of *)

\* The file system the last invocation started from.
Before == last.before

\* The config document the external application reads.
LiveDocument(w) ==
    With(FirstParseable(w.cfg, 1), LAMBDA i : IF i = 0 THEN EmptyDoc ELSE w.cfg[i].doc)

NoIdentity == Identity(<<>>, "")

IdentityOf(d) == IF HasOAuthAccount(d) THEN d["oauthAccount"] ELSE NoIdentity

\* The keys of a config document that are the external application's own settings.
Settings(d) == WithoutKeys(d, {"oauthAccount"})

\* A captured document without the credentials that capture adds to it.
Captured(d) == WithoutKeys(d, {"_cflip_credentials"})

LiveEmail(w) == GetUserEmail(LiveDocument(w))

\* The identity and the credentials that are live.
LivePair(w) == <<IdentityOf(LiveDocument(w)), w.creds>>

\* The Snapshot invariant, for the state that is live.
ValidLive(w) ==
    /\ ValidateConfig(LiveDocument(w))
    /\ w.creds.st = "ok"
    /\ w.creds.creds.accessToken # ""

SavedWithEmail(w, email) ==
    {i \in 1..Len(ListProfiles(w)) : ListProfiles(w)[i].email = email}

ProfileKey(p) ==
    [name |-> p.name, email |-> p.email, alias |-> p.alias, accountUuid |-> p.accountUuid]

\* The last invocation was a switch that returned success.
Switched == last.op = "switch" /\ last.halt = "ok"

\* The last invocation was a switch, and the process stopped during it.
Interrupted == last.op = "switch" /\ last.halt = "crash"

\* The target the last switch resolved, from the state it started from.
Target == targetOf(Before, last.id)

TargetPair ==
    <<IdentityOf(Target.profile.claudeConfig), CredsFileOf(Target.profile.credentials)>>

\* The step of the last switch that saves the account that was live failed.
SavingCurrentFailed ==
    With(currentEmailOf(Before), LAMBDA currentEmail :
        /\ currentEmail # <<>>
        /\ IF LoadProfile(Before, currentEmail).err
           THEN SaveCurrentAccount(Before, currentEmail, <<>>, last.fault).halt = "err"
           ELSE refreshProfile(Before, LoadProfile(Before, currentEmail).profile,
                               last.fault).halt = "err")

-----------------------------------------------------------------------------
(* The frame of a switch *)

\* C1: every successful switch from a live account leaves every top-level key of
\* the live config document other than oauthAccount with the value it had in the
\* live config file before the switch.
C1_SwitchKeepsSettings ==
    (Switched /\ LiveEmail(Before) # <<>>)
        => Settings(LiveDocument(W)) = Settings(LiveDocument(Before))

\* C2: LoadClaudeConfig followed at once by SaveClaudeConfig of what it returned
\* leaves every key of the live config document outside oauthAccount with its
\* value, and adds and drops no key.
C2_RoundTripKeepsDocument ==
    (last.op = "roundtrip" /\ last.halt = "ok")
        => Settings(LiveDocument(W)) = Settings(LiveDocument(Before))

-----------------------------------------------------------------------------
(* What a successful switch leaves *)

\* C3: after a successful switch to a named profile T, the identity of the live
\* config file and the live credentials are those of the snapshot T's profile
\* held when the switch began.
C3_SwitchAppliesTarget ==
    (Switched /\ last.id # <<>>)
        => /\ IdentityOf(LiveDocument(W)) = IdentityOf(Target.profile.claudeConfig)
           /\ credsFile = CredsFileOf(Target.profile.credentials)

C3_Witness ==
    /\ Switched
    /\ last.id # <<>>
    /\ LiveEmail(Before) # <<>>
    /\ IdentityOf(LiveDocument(W)) # IdentityOf(LiveDocument(Before))
    /\ credsFile # Before.creds

\* C4: after a successful switch that resolved to profile T, the index's active
\* profile is T's name and GetActiveProfile returns T.
C4_SwitchActivatesTarget ==
    Switched
        => /\ indexFile.config.activeProfile = Target.profile.name
           /\ ~GetActiveProfile(W).err
           /\ ProfileKey(GetActiveProfile(W).profile) = ProfileKey(Target.profile)

\* C5: when a profile P is saved for the e-mail of the account that is live, a
\* successful switch leaves P holding the live config document and the live
\* credentials as they were before the switch, under P's name and alias.
C5_SwitchRefreshesLiveProfile ==
    (Switched /\ LiveEmail(Before) # <<>>)
        => \A i \in SavedWithEmail(Before, LiveEmail(Before)) :
             \E j \in SavedWithEmail(W, LiveEmail(Before)) :
               /\ Captured(ListProfiles(W)[j].claudeConfig) = LiveDocument(Before)
               /\ CredsFileOf(ListProfiles(W)[j].credentials) = Before.creds
               /\ ListProfiles(W)[j].name = ListProfiles(Before)[i].name
               /\ ListProfiles(W)[j].alias = ListProfiles(Before)[i].alias

C5_Witness ==
    /\ Switched
    /\ \E i \in SavedWithEmail(Before, LiveEmail(Before)) :
         /\ ListProfiles(Before)[i].alias # <<>>
         /\ Captured(ListProfiles(Before)[i].claudeConfig) # LiveDocument(Before)
         /\ CredsFileOf(ListProfiles(Before)[i].credentials) # Before.creds

\* C6: when no profile is saved for the e-mail of the account that is live, the
\* e-mail is not empty and the live snapshot is valid, a successful switch leaves
\* a profile named by that e-mail that holds the live config document and the
\* live credentials as they were before the switch, and the target is active.
C6_SwitchCreatesLiveProfile ==
    (/\ Switched
     /\ LiveEmail(Before) # <<>>
     /\ SavedWithEmail(Before, LiveEmail(Before)) = {}
     /\ ValidLive(Before))
        => /\ \E j \in SavedWithEmail(W, LiveEmail(Before)) :
                /\ ListProfiles(W)[j].name = LiveEmail(Before)
                /\ Captured(ListProfiles(W)[j].claudeConfig) = LiveDocument(Before)
                /\ CredsFileOf(ListProfiles(W)[j].credentials) = Before.creds
           /\ indexFile.config.activeProfile = Target.profile.name

\* C7: a switch whose target resolves and whose saving of the account that was
\* live fails still applies the target, makes it active and returns success.
C7_SavingFailureIsNoFailure ==
    (last.op = "switch" /\ ~Target.err /\ SavingCurrentFailed)
        => /\ last.halt = "ok"
           /\ LivePair(W) = TargetPair
           /\ indexFile.config.activeProfile = Target.profile.name

-----------------------------------------------------------------------------
(* A switch that is interrupted *)

\* C8, as stated: wherever the process stops during a switch, the live identity
\* and the live credentials are both those from before the switch or both the
\* target's.
C8_InterruptedSwitchIsAtomic ==
    Interrupted => LivePair(W) \in {LivePair(Before), TargetPair}

\* C8, amended: a switch that stops anywhere but between the replacement of the
\* live config file and the replacement of the live credentials leaves the live
\* identity and the live credentials both as they were before the switch or
\* both the target's.
C8_InterruptedOutsideApply ==
    (Interrupted /\ last.fault.at \notin {"config_rename", "creds_write"})
        => LivePair(W) \in {LivePair(Before), TargetPair}

C8_Witness ==
    /\ Interrupted
    /\ last.fault.at = "creds_rename"
    /\ LivePair(W) = TargetPair
    /\ LivePair(Before) # TargetPair
    /\ IdentityOf(LiveDocument(Before)) # IdentityOf(LiveDocument(W))

-----------------------------------------------------------------------------
(* The target of a switch *)

\* The next profile in sequence: the entry after the first one that has the
\* name of the active profile, counted around the list; the first entry when
\* no profile is active or none has that name.
NextInSequence(w) ==
    With2(ListProfiles(w), GetActiveProfile(w), LAMBDA profiles, active :
        LET at  == {i \in 1..Len(profiles) :
                       ~active.err /\ profiles[i].name = active.profile.name}
            pos == IF at = {} THEN 0 ELSE CHOOSE i \in at : \A j \in at : i <= j
        IN  IF Len(profiles) = 0 THEN [err |-> TRUE, profile |-> NilProfile]
            ELSE [err |-> FALSE, profile |-> profiles[(pos % Len(profiles)) + 1]])

\* C9: GetNextProfile is the next profile in sequence over the list of saved
\* profiles: the only profile when there is one, else the entry after the
\* active one, the first entry when the active one is last, when none is active
\* or when the active one is not in the list.
C9_NextProfileInSequence == GetNextProfile(W) = NextInSequence(W)

C9_Witness ==
    /\ last.op = "switch"
    /\ last.id = <<>>
    /\ Len(ListProfiles(W)) = 3
    /\ ~GetActiveProfile(W).err
    /\ GetActiveProfile(W).profile = ListProfiles(W)[3]
    /\ GetNextProfile(W).profile = ListProfiles(W)[1]

\* C10: a switch that cannot resolve its target returns an error and leaves the
\* live config files, the live credentials, every profile file and the index
\* as they were.
C10_UnresolvedSwitchChangesNothing ==
    (last.op = "switch" /\ Target.err) => (last.halt = "err" /\ W = Before)

C10_Witness ==
    /\ last.op = "switch"
    /\ last.id # <<>>
    /\ Target.err
    /\ Len(ListProfiles(Before)) > 0
    /\ ValidLive(Before)
    /\ SavedWithEmail(Before, LiveEmail(Before)) = {}

-----------------------------------------------------------------------------
(* Adding the account that is live *)

\* The last invocation was an add that returned success.
Added == last.op = "add" /\ last.halt = "ok"

\* What the repository persists: the profile files and the index.
Repository(w) == [pfiles |-> w.pfiles, index |-> w.index]

NamedProfiles(w, name) == {i \in 1..Len(ListProfiles(w)) : ListProfiles(w)[i].name = name}

\* C11: after a successful add without alias, a second add without alias and
\* without a change of the live state succeeds, there is one profile with the
\* name of the live e-mail, and the profile files, the index's entries and the
\* active profile are those the first add left.
C11_AddTwiceIsAddOnce ==
    (Added /\ last.alias = <<>>)
        => /\ AddCurrentAccount(W, <<>>, NoFault).halt = "ok"
           /\ Repository(AddCurrentAccount(W, <<>>, NoFault).w) = Repository(W)
           /\ Cardinality(NamedProfiles(W, LiveEmail(W))) = 1

\* The second of two adds in a row has acted: it found the profile and the
\* index as it left them.
C11_Witness ==
    /\ Added
    /\ last.alias = <<>>
    /\ Repository(W) = Repository(Before)
    /\ Len(ListProfiles(W)) = 2
    /\ indexFile.config.activeProfile = LiveEmail(W)

\* The name an add gives the profile: the alias, the live e-mail without one.
AddedName == IF last.alias # <<>> THEN last.alias ELSE LiveEmail(Before)

\* The profile p holds the account and the snapshot that are live in w.
HoldsLive(p, w) ==
    /\ p.email = LiveEmail(w)
    /\ Captured(p.claudeConfig) = LiveDocument(w)
    /\ CredsFileOf(p.credentials) = w.creds

\* C12: after a successful add a profile exists under the alias, or under the
\* live e-mail when no alias is given, that holds the live account and its
\* snapshot; the index's active profile is that name and GetActiveProfile
\* returns the profile of the live account.
C12_AddSavesAndActivatesLive ==
    Added
        => /\ \E i \in NamedProfiles(W, AddedName) : HoldsLive(ListProfiles(W)[i], Before)
           /\ indexFile.config.activeProfile = AddedName
           /\ ~GetActiveProfile(W).err
           /\ HoldsLive(GetActiveProfile(W).profile, Before)

\* C13: an add fails, saves no profile and leaves the index as it was whenever
\* the live snapshot is not valid: no identity, an empty e-mail, an empty
\* account identifier, no credentials or an empty access token.
C13_AddRejectsInvalidSnapshot ==
    (last.op = "add" /\ ~ValidLive(Before))
        => (last.halt = "err" /\ Repository(W) = Repository(Before))

-----------------------------------------------------------------------------
(* The index *)

ActiveName(w) == LoadConfig(w).config.activeProfile

\* The active profile's name keys an entry of the index, and a profile of that
\* name can be loaded.
ActiveIsSaved(w) ==
    /\ ActiveName(w) \in DOMAIN LoadConfig(w).config.profiles
    /\ ~LoadProfile(w, ActiveName(w)).err
    /\ LoadProfile(w, ActiveName(w)).profile.name = ActiveName(w)

\* C14: in every state that adds, switches, renames, removes and settings of
\* the active profile reach, the index's active profile is empty or keys an
\* entry of the index whose profile is saved under that name and can be loaded.
C14_ActiveProfileIsSaved == ActiveName(W) = <<>> \/ ActiveIsSaved(W)

\* The index names an active profile that cannot be loaded.
Dangling(w) == ActiveName(w) # <<>> /\ LoadProfile(w, ActiveName(w)).err

\* C15: when GetActiveProfile meets an active profile that is no longer saved,
\* it clears the index's active profile.
C15_DanglingActiveIsCleared ==
    (last.op = "current" /\ Dangling(Before)) => ActiveName(W) = <<>>

-----------------------------------------------------------------------------
(* Removing a profile *)

\* The profile a remove of the last invocation's identifier deletes.
Removed == LoadProfile(Before, last.id)

\* The profile that was active when the last invocation began.
ActiveBefore == GetActiveProfile(Before)

\* The last invocation was a remove of the active profile, by name or by e-mail.
RemovesActive ==
    /\ last.op = "remove"
    /\ ~ActiveBefore.err
    /\ last.id \in {ActiveBefore.profile.name, ActiveBefore.profile.email}

\* C16: a remove of the active profile P succeeds, removes P's file and P's
\* index entry and clears the index's active profile, so that GetActiveProfile
\* fails; a remove of a profile that is not the active one leaves the index's
\* active profile as it was.
C16_RemoveClearsActive ==
    /\ RemovesActive
         => /\ last.halt = "ok"
            /\ ProfilePath(ActiveBefore.profile.email) \notin DOMAIN profileFiles
            /\ ActiveBefore.profile.name \notin DOMAIN indexFile.config.profiles
            /\ ActiveName(W) = <<>>
            /\ GetActiveProfile(W).err
    /\ (last.op = "remove" /\ last.halt = "ok" /\ ~ActiveBefore.err
          /\ Removed.profile # ActiveBefore.profile)
         => ActiveName(W) = ActiveName(Before)

\* The file a remove of the last invocation's identifier deletes.
RemovedPath == findProfilePath(Before, last.id).path

\* C17: a remove, whether it succeeds, fails or is stopped and whether or not
\* it removes the active profile, leaves the live config files, the .backup and
\* the live credentials as they were, and every profile file but the one it
\* removes.
C17_RemoveKeepsLiveAndOthers ==
    last.op = "remove"
        => /\ cfgFiles = Before.cfg
           /\ cfgBackup = Before.bak
           /\ cfgTmp = Before.tmp
           /\ credsFile = Before.creds
           /\ DOMAIN profileFiles \subseteq DOMAIN Before.pfiles
           /\ \A x \in DOMAIN Before.pfiles \ {RemovedPath} :
                x \in DOMAIN profileFiles /\ profileFiles[x] = Before.pfiles[x]

\* A remove of the active profile that leaves another profile of the same
\* name saved.
C17_Witness ==
    /\ RemovesActive
    /\ last.halt = "ok"
    /\ RemovedPath \notin DOMAIN profileFiles
    /\ DOMAIN profileFiles # {}
    /\ \A x \in DOMAIN profileFiles : profileFiles[x].profile.name = ActiveBefore.profile.name

-----------------------------------------------------------------------------
(* The profiles that are saved *)

\* C18: no two saved profiles have the same name: a save under the name of a
\* saved profile overwrites that profile, also when the e-mails differ.
C18_NamesAreUnique ==
    \A i, j \in 1..Len(ListProfiles(W)) :
        ListProfiles(W)[i].name = ListProfiles(W)[j].name => i = j

\* The saved profiles that have the identifier as their name or their e-mail.
Matching(w, identifier) ==
    {i \in 1..Len(ListProfiles(w)) :
        ListProfiles(w)[i].name = identifier \/ ListProfiles(w)[i].email = identifier}

\* C19: LoadProfile succeeds exactly when a saved profile that parses has the
\* identifier as its name or its e-mail, and it returns such a profile.
C19_LoadFindsByNameOrEmail ==
    \A identifier \in Identifiers \ {<<>>} :
        /\ LoadProfile(W, identifier).err <=> Matching(W, identifier) = {}
        /\ ~LoadProfile(W, identifier).err
             => \E i \in Matching(W, identifier) :
                  LoadProfile(W, identifier).profile = ListProfiles(W)[i]

\* The profile files that parse.
Parseable(w) == {x \in DOMAIN w.pfiles : w.pfiles[x].st = "ok"}

\* C20: ListProfiles returns the profiles of the files that parse and no other;
\* a file that does not parse is skipped, and neither the selection of the next
\* profile nor the lookup by scan fails because of it.
C20_ListSkipsUnparseable ==
    /\ Len(ListProfiles(W)) = Cardinality(Parseable(W))
    /\ {ListProfiles(W)[i] : i \in 1..Len(ListProfiles(W))}
         = {profileFiles[x].profile : x \in Parseable(W)}
    /\ GetNextProfile(W).err <=> Parseable(W) = {}
    /\ \A identifier \in Identifiers \ {<<>>} :
         Matching(W, identifier) # {} => ~findProfilePath(W, identifier).err
    /\ (last.op = "switch" /\ last.id = <<>> /\ Parseable(Before) # {}) => ~Target.err

\* A switch to the next profile on a repository whose first file does not
\* parse and whose other files hold two profiles.
C20_Witness ==
    /\ last.op = "switch"
    /\ last.id = <<>>
    /\ last.halt = "ok"
    /\ Cardinality(Parseable(Before)) = 2
    /\ \E x \in DOMAIN Before.pfiles \ Parseable(Before) :
         \A y \in Parseable(Before) : StrLess(x, y)

-----------------------------------------------------------------------------
(* rename *)

\* The profile the last invocation's identifier resolved to when it began.
Resolved == LoadProfile(Before, last.id)

\* The last invocation was a rename that succeeded.
Renamed == last.op = "rename" /\ last.halt = "ok"

\* C21: a rename changes only the alias of the profile its identifier resolves
\* to: that profile's file holds the same name, e-mail, account and snapshot
\* with the new alias, every other profile file, the index's active profile
\* and its entries, and the live files are as they were.
C21_RenameChangesOnlyAlias ==
    Renamed
        => /\ ~Resolved.err
           /\ profileFiles = [Before.pfiles EXCEPT ![ProfilePath(Resolved.profile.email)] =
                                 ProfileFileOf([Resolved.profile EXCEPT !.alias = last.alias])]
           /\ indexFile = Before.index
           /\ cfgFiles = Before.cfg
           /\ cfgBackup = Before.bak
           /\ cfgTmp = Before.tmp
           /\ credsFile = Before.creds

-----------------------------------------------------------------------------
(* validate *)

\* The profile has no identity sub-document in its config document.
LacksIdentity(p) == p.claudeConfig = NilClaudeConfig \/ "oauthAccount" \notin DOMAIN p.claudeConfig

\* The profile has no credentials document, or one with an empty access token.
LacksToken(p) == p.credentials = NilCredentials \/ p.credentials.accessToken = ""

\* C22: the validation of a profile that loads fails exactly when the profile
\* has no identity sub-document in its config document, has no credentials
\* document or has an empty access token; nothing else of the profile, the
\* refresh token included, makes it fail.
C22_ValidateChecksIdentityAndToken ==
    (last.op = "validate" /\ ~Resolved.err)
        => (last.halt = "err" <=> LacksIdentity(Resolved.profile) \/ LacksToken(Resolved.profile))

\* A validation that failed on the access token alone, and one that passed.
C22_Witness ==
    /\ last.op = "validate"
    /\ ~Resolved.err
    /\ last.halt = "err"
    /\ ~LacksIdentity(Resolved.profile)
    /\ Resolved.profile.credentials # NilCredentials
    /\ Resolved.profile.credentials.refreshToken # ""
    /\ \E id \in Identifiers \ {<<>>} : ValidateProfile(W, id).halt = "ok"

-----------------------------------------------------------------------------
(* apply *)

\* The last invocation applied a snapshot and failed at the step named.
ApplyFailedAt(sites) ==
    /\ last.op \in {"switch", "roundtrip"}
    /\ last.halt = "err"
    /\ last.fault.at \in sites

\* C23: when the write of the temporary file or the rename fails while a
\* snapshot is applied, the live config file holds what it held before the
\* call and no .tmp file is left next to it.
C23_ApplyFailsAtomically ==
    ApplyFailedAt({"config_write", "config_rename"})
        => /\ cfgFiles = Before.cfg
           /\ cfgTmp = NoFile

\* The keys of the config files at the candidate paths that carry the prefix
\* "_cflip_".
InternalKeys(files) ==
    UNION {{k \in DOMAIN files[i].doc : HasInternalPrefix(k)} : i \in 1..NumConfigPaths}

\* C24: no live config file holds the credentials that capture puts into the
\* captured document, and a live config file the tool has written holds no key
\* with the prefix "_cflip_" at all, whichever profile the snapshot came from.
C24_NoCredentialsInLiveConfig ==
    /\ "_cflip_credentials" \notin InternalKeys(cfgFiles)
    /\ (last.op # "external" /\ cfgFiles # Before.cfg) => InternalKeys(cfgFiles) = {}

\* A switch that refreshed the profile of the account that was live and wrote
\* the live config file from a saved profile whose document holds credentials.
C24_Witness ==
    /\ Switched
    /\ nOps >= 2
    /\ cfgFiles # Before.cfg
    /\ ~LoadProfile(Before, LiveEmail(Before)).err
    /\ Target.profile.email # LiveEmail(Before)
    /\ "_cflip_credentials" \in DOMAIN Target.profile.claudeConfig
    /\ Target.profile.claudeConfig["_cflip_credentials"].accessToken # ""

-----------------------------------------------------------------------------
(* The secure store *)

\* The store is constructed over one of the two backends.
Backed(k) == k.built /\ k.impl \in {"MacOSKeychain", "LinuxFileStorage"}

\* The name under which the backend keeps the entry of a key.
EntryName(k, key) == IF k.impl = "MacOSKeychain" THEN key ELSE credentialsPath(key)

\* The vault v of the store k holds no entry for the key.
Absent(k, v, key) == EntryName(k, key) \notin DOMAIN v

\* C25: on both backends a delete that its utility or file system does not
\* fail returns success and leaves no entry for the key, changes nothing when
\* there was none, and succeeds again when repeated; a retrieve of a key that
\* has no entry returns the not-found error, not a generic failure and not an
\* empty value.
C25_DeleteIdempotentRetrieveNotFound ==
    /\ (last.op = "Delete" /\ last.fault = NoFault /\ Backed(keychain))
         => /\ last.err = "none"
            /\ Absent(keychain, vault, last.key)
            /\ Absent(keychain, last.before.vault, last.key) => vault = last.before.vault
            /\ KeychainStorageDelete(keychain, vault, last.key, NoFault)
                 = Returned(vault, "none", <<>>)
    /\ Backed(keychain)
         => \A key \in VaultKeys :
              Absent(keychain, vault, key)
                => KeychainStorageRetrieve(keychain, vault, key, NoFault)
                     = Returned(vault, "not found", <<>>)
    /\ (last.op = "Retrieve" /\ last.fault = NoFault /\ Backed(keychain)
          /\ Absent(keychain, last.before.vault, last.key))
         => last.err = "not found" /\ vault = last.before.vault

\* The third call of a store: a delete of a key that has no entry, another
\* key's entry being kept, returned success, and a retrieve of the key returns
\* the not-found error.
C25_Witness ==
    /\ last.op = "Delete"
    /\ last.fault = NoFault
    /\ Backed(keychain)
    /\ nOps = 3
    /\ Absent(keychain, last.before.vault, last.key)
    /\ vault # EmptyVault
    /\ last.err = "none"
    /\ KeychainStorageRetrieve(keychain, vault, last.key, NoFault).err = "not found"

Supported == platform \in {"darwin", "linux"}

\* C26: on a platform that is not supported the construction of the secure
\* store and of the storage manager returns the unsupported-platform error and
\* constructs nothing, so that no Store, Retrieve or Delete is ever called on
\* a store.
C26_UnsupportedPlatformFailsConstruction ==
    ~Supported
        => /\ ~keychain.built
           /\ ~manager.built
           /\ last.op \in {"NewKeychainStorage", "NewStorageManager"}
                => last.err = "unsupported platform"
           /\ last.op \notin {"Store", "Retrieve", "Delete"}

-----------------------------------------------------------------------------
(* The running external application *)

\* The last invocation found the external application running.
FoundRunning == checkClaudeCodeNotRunning(platform, last.matched) # "ok"

\* C27: a switch without force that finds the external application running
\* returns an error and leaves the live files, the profiles and the index as
\* they were; a switch with force ends as the engine's switch ends and leaves
\* what it leaves, whether or not the application is found running.
C27_RunningApplicationBlocksSwitch ==
    /\ (last.op = "switch" /\ ~last.force /\ FoundRunning)
         => (last.halt = "err" /\ W = Before)
    /\ (last.op = "switch" /\ last.force)
         => Halt(W, last.halt) = SwitchToAccount(Before, last.id, NoFault)

\* A switch with force went through while the application was found running,
\* and the same switch without force would have been refused.
C27_Witness ==
    /\ Switched
    /\ last.force
    /\ FoundRunning
    /\ cfgFiles # Before.cfg
    /\ credsFile # Before.creds
    /\ ServiceSwitchToAccount(Before, platform, last.id, FALSE, last.matched, NoFault)
         = Halt(Before, "err")

-----------------------------------------------------------------------------
(* save and load *)

\* The profiles a save can be given in the state w: the profile that an add
\* builds from the live state, under each alias, and the same without a name.
Savable(w) ==
    UNION {{SaveCurrentAccount(w, alias, alias, NoFault).profile,
            [SaveCurrentAccount(w, alias, alias, NoFault).profile EXCEPT !.name = <<>>]} :
              alias \in {a \in Aliases : SaveCurrentAccount(w, a, a, NoFault).halt = "ok"}}

\* What a save of p in w and a load of p's name after it give.
SavedThenLoaded(w, p) ==
    With(SaveProfile(w, p, NoFault), LAMBDA r :
        /\ p.name = <<>> => (r.halt = "err" /\ r.w = w)
        /\ r.halt = "ok"
             => /\ LoadProfile(r.w, p.name) = [err |-> FALSE, profile |-> p]
                /\ p.name \in DOMAIN r.w.index.config.profiles
                /\ r.w.index.config.profiles[p.name] = p.email)

\* C28: a save of a profile without a name returns an error and writes
\* nothing; after a save that succeeds, a load of the profile's name returns
\* the profile saved and the index maps the name to the profile's e-mail.
C28_SaveThenLoad == \A p \in Savable(W) : SavedThenLoaded(W, p)

-----------------------------------------------------------------------------
(* capture *)

\* C29: capture returns the document of the first candidate, in probing
\* order, that is there and parses, whatever the candidates before it hold;
\* it fails exactly when no candidate parses, and returns no document then.
C29_CaptureReadsFirstParseable ==
    last.op = "capture"
        => /\ last.halt = "err" <=> FirstParseable(Before.cfg, 1) = 0
           /\ FirstParseable(Before.cfg, 1) = 0 => last.out = EmptyDoc
           /\ FirstParseable(Before.cfg, 1) # 0
                => Captured(last.out) = Before.cfg[FirstParseable(Before.cfg, 1)].doc

-----------------------------------------------------------------------------
(* The backup *)

\* The last invocation applied a snapshot over a ~/.claude.json that was there.
AppliesOverLive == last.op \in {"switch", "roundtrip"} /\ Before.cfg[1].st # "none"

\* C30: when a snapshot is applied over a live config file, the .backup holds
\* what the live file held before the call once the apply has succeeded, and
\* already whenever the live file has been replaced, also if the process stops
\* thereafter; when the backup cannot be taken the live file is as it was.
C30_BackupBeforeReplace ==
    /\ (AppliesOverLive /\ last.halt = "ok") => cfgBackup = Before.cfg[1]
    /\ (AppliesOverLive /\ cfgFiles # Before.cfg) => cfgBackup = Before.cfg[1]
    /\ (AppliesOverLive /\ last.fault.at = "backup" /\ last.halt = "err")
         => cfgFiles = Before.cfg

\* A switch replaced the live config file and left its content in the
\* .backup, over the backup an earlier switch had taken.
C30_Witness ==
    /\ Switched
    /\ Before.cfg[1].st = "ok"
    /\ cfgFiles[1] # Before.cfg[1]
    /\ cfgBackup = Before.cfg[1]
    /\ Before.bak.st = "ok"
    /\ Before.bak # Before.cfg[1]

-----------------------------------------------------------------------------
(* The file store's writes *)

\* The .backup sibling of a file of the store.
backupPath(path) == path \o <<".", "b", "a", "c", "k", "u", "p">>

\* The last call was a Store on the file backend for a key that had an entry.
StoredOverEntry ==
    /\ last.op = "Store"
    /\ keychain.impl = "LinuxFileStorage"
    /\ ~Absent(keychain, last.before.vault, last.key)

\* C31: on the file backend a store over an entry that succeeds leaves the
\* entry's earlier content in the .backup file, and a store that fails at the
\* write of the temporary file or at the rename leaves the earlier content
\* retrievable.
C31_FileStoreKeepsBackup ==
    /\ (StoredOverEntry /\ last.err = "none")
         => /\ backupPath(credentialsPath(last.key)) \in DOMAIN vault
            /\ vault[backupPath(credentialsPath(last.key))]
                 = last.before.vault[credentialsPath(last.key)]
    /\ (StoredOverEntry /\ last.fault.at \in {"vault_write", "vault_rename"})
         => KeychainStorageRetrieve(keychain, vault, last.key, NoFault)
              = Returned(vault, "none", last.before.vault[credentialsPath(last.key)].data)

(* The shared files under concurrent invocations *)

Complete(file) == file.bytes \in {InitialDocument} \cup {Marshalled(p) : p \in Procs}

\* C32: while two invocations save to the same shared file at the same time,
\* the file holds, whenever it exists, a complete document written in full by
\* one invocation: the initial one or the one either invocation marshalled.
C32_SharedFileAlwaysComplete == running.target.exists => Complete(running.target)

-----------------------------------------------------------------------------
(* A switch to the account that is live *)

\* The last switch resolved the profile of the account that was live.
SwitchedToLive ==
    /\ Switched
    /\ LiveEmail(Before) # <<>>
    /\ Target.profile.email = LiveEmail(Before)

\* C33: a successful switch whose target is the profile of the account that is
\* live leaves the live config document and the live credentials exactly as
\* they were before it, whatever the profile held when the switch began.
C33_SwitchToLiveChangesNothingLive ==
    SwitchedToLive => /\ LiveDocument(W) = LiveDocument(Before)
                      /\ credsFile = Before.creds

-----------------------------------------------------------------------------
(* A switch there and back *)

\* The last invocation switched to the saved profile B and back to the saved
\* profile A, the profile of the account that was live and the active one.
SwitchedThereAndBack ==
    /\ last.op = "thereandback"
    /\ last.halt = "ok"
    /\ With2(LoadProfile(Before, last.back), LoadProfile(Before, last.id), LAMBDA A, B :
          /\ ~A.err
          /\ ~B.err
          /\ A.profile.name # B.profile.name
          /\ A.profile.email = LiveEmail(Before)
          /\ ActiveName(Before) = A.profile.name)

\* C34: with saved profiles A, live and active, and B, a switch to B followed
\* at once by a switch to A leaves the live config document and the live
\* credentials as they were before the first switch, and A the active profile.
C34_SwitchThereAndBackRestores ==
    SwitchedThereAndBack
        => /\ LiveDocument(W) = LiveDocument(Before)
           /\ credsFile = Before.creds
           /\ ActiveName(W) = LoadProfile(Before, last.back).profile.name

-----------------------------------------------------------------------------
(* A switch that returns an error *)

\* C35: after a switch that returned an error, whichever step failed, the
\* index names the same active profile as before the switch.
C35_FailedSwitchKeepsActive ==
    (last.op = "switch" /\ last.halt = "err") => ActiveName(W) = ActiveName(Before)

\* A switch to a profile that was not the active one changed the live config
\* and then failed to write the active profile.
C35_Witness ==
    /\ last.op = "switch"
    /\ last.halt = "err"
    /\ last.fault.at \in {"active_write", "active_rename"}
    /\ ~Target.err
    /\ Target.profile.name # ActiveName(Before)
    /\ ActiveName(Before) # <<>>
    /\ cfgFiles # Before.cfg

-----------------------------------------------------------------------------
(* The index and the persisted profiles *)

PersistedNames(w) == {ListProfiles(w)[i].name : i \in 1..Len(ListProfiles(w))}

\* C36: after any sequence of add, switch, rename and remove commands, the keys
\* of the index's profiles map are the names of the persisted profiles, and the
\* index maps the name of every persisted profile to that profile's email.
C36_IndexMatchesProfiles ==
    /\ DOMAIN LoadConfig(W).config.profiles = PersistedNames(W)
    /\ \A i \in 1..Len(ListProfiles(W)) :
         /\ ListProfiles(W)[i].name \in DOMAIN LoadConfig(W).config.profiles
         /\ LoadConfig(W).config.profiles[ListProfiles(W)[i].name] = ListProfiles(W)[i].email

-----------------------------------------------------------------------------
(* The snapshots of the persisted profiles *)

ValidSnapshot(p) ==
    /\ GetUserEmail(p.claudeConfig) # <<>>
    /\ GetAccountUuid(p.claudeConfig) # ""
    /\ p.credentials.accessToken # ""

\* C37: every profile that list returns holds a valid snapshot: an identity
\* with an email and an account identifier, and an access token.
C37_ListedProfilesAreValid ==
    \A i \in 1..Len(ListProfiles(W)) : ValidSnapshot(ListProfiles(W)[i])

-----------------------------------------------------------------------------
(* Cycling through the profiles *)

\* The run started from two or more profiles with pairwise different names,
\* the active one being the profile of the live account, and has made as many
\* successful switches as there were profiles.
Cycled ==
    With2(ListProfiles(last.start), GetActiveProfile(last.start), LAMBDA profiles, active :
        /\ Len(profiles) >= 2
        /\ \A i, j \in 1..Len(profiles) : profiles[i].name = profiles[j].name => i = j
        /\ ~active.err
        /\ active.profile.name = ActiveName(last.start)
        /\ active.profile.email = LiveEmail(last.start)
        /\ Len(last.visited) = Len(profiles))

\* C38: N switches without an account in a row, from N >= 2 profiles with
\* different names of which the active one is live, make every profile the
\* active one exactly once, the initially active one last, and neither create
\* nor remove a profile.
C38_CyclingVisitsEveryProfileOnce ==
    Cycled
        => /\ {last.visited[i] : i \in 1..Len(last.visited)} = PersistedNames(last.start)
           /\ last.visited[Len(last.visited)] = ActiveName(last.start)
           /\ DOMAIN profileFiles = DOMAIN last.start.pfiles
           /\ PersistedNames(W) = PersistedNames(last.start)

-----------------------------------------------------------------------------
(* The secure store's round trip *)

\* What Retrieve(key) returns from the vault v: the error and the data.
Retrieved(v, key) ==
    With(KeychainStorageRetrieve(keychain, v, key, NoFault), LAMBDA r : <<r.err, r.out>>)

\* C39: after a successful Store(k, v), Retrieve(k) returns exactly v, also when
\* k was stored before; a Store or Delete on another key, and a Retrieve on any
\* key, leave what Retrieve(k) returns as it was.
C39_StoreRoundTripAndIsolation ==
    /\ (last.op = "Store" /\ last.err = "none")
         => Retrieved(vault, last.key) = <<"none", last.data>>
    /\ last.op \in {"Store", "Delete"}
         => \A key \in VaultKeys \ {last.key} :
              Retrieved(vault, key) = Retrieved(last.before.vault, key)
    /\ last.op = "Retrieve"
         => \A key \in VaultKeys : Retrieved(vault, key) = Retrieved(last.before.vault, key)

-----------------------------------------------------------------------------
(* The active account of the AccountManager *)

\* C40: in every state the manager reaches through AddAccount, UpdateAccount,
\* RenameAccount, RemoveAccount and SetActiveAccount at most one account has
\* IsActive set, and after a successful SetActiveAccount the active account is
\* the one the identifier resolved to.
C40_AtMostOneActiveAccount ==
    /\ Cardinality(GetActiveAccount(accounts.accounts)) <= 1
    /\ (last.op = "SetActiveAccount" /\ last.err = "none")
         => GetActiveAccount(accounts.accounts) = {last.found}

====
